---- MODULE Spec2Model ----
(***************************************************************************)
(* A model of mcp-md-index: the Indexer (Load, the embedding queue and its *)
(* workers), the two-tier cache, the readiness tracker and the BM25        *)
(* response assembly.                                                      *)
(*                                                                         *)
(* Index values live on a heap, because the program hands out pointers:    *)
(* the memory cache, the queue and a worker's batch may all name the same  *)
(* *domain.Index, and a worker assigns embeddings in place.  The disk      *)
(* cache holds serialized copies.                                          *)
(***************************************************************************)
EXTENDS Integers, Sequences, FiniteSets, TLC

(***************************************************************************)
(* Bounds of the model.                                                    *)
(***************************************************************************)
MaxLoads == 2        \* Load calls that miss the memory cache
MaxRestarts == 1     \* times the process ends and is started again
MaxCloses == 2       \* calls of Close
MaxEdits == 1        \* modifications of a file in one run
MaxContent == 2      \* a file content is named by the number of sections it has
QueueCap == 1        \* capacity of the embedding queue (defaultQueueSize, scaled)

(***************************************************************************)
(* Program constants.                                                      *)
(***************************************************************************)
defaultWorkerCount == 2
maxBatchChunks == 100
CacheVersion == 4
DefaultMaxTokens == 500

Callers == {"c1", "c2"}    \* goroutines that may be inside Load at once
Workers == 1..defaultWorkerCount
Paths == {"a.md", "b.go"}
Contents == 0..MaxContent

\* parser.DocIDForPath: a hash of the absolute path, injective on Paths.
DocIDForPath(p) == IF p = "a.md" THEN "d1" ELSE "d2"

\* The sites that LoadSite may be asked for.
URLs == {"http://site"}

\* docIDForURL: a hash of the URL, distinct from the DocIDs of the files.
docIDForURL(u) == "d3"

\* FileCache.MarkdownPath: <cacheDir>/<DocID>.md
MarkdownPath(d) == "d3.md"

DocIDs == {DocIDForPath(p) : p \in Paths} \cup {docIDForURL(u) : u \in URLs}

\* OSFileReader.HashFile: SHA-256 of the content, injective on Contents.
HashFile(content) == 1000 + content

\* strings.ToLower(filepath.Ext(path)) is ".md" or ".markdown"
IsMarkdown(p) == p \in {"a.md", "d3.md"}

\* Text of the i-th chunk parsed from a content; distinct chunks of distinct
\* contents have distinct texts.
ChunkText(content, i) == 10 * content + i

\* A chunk's Embedding before a worker fills it in: a nil slice.
NoEmbedding == <<>>

\* MarkdownParser.Parse: one chunk per non-empty section; a file with only
\* whitespace yields no chunk (flush discards empty text).
MarkdownParse(content) ==
    [i \in 1..content |-> [Text |-> ChunkText(content, i), Embedding |-> NoEmbedding]]

\* GenericParser.Parse: strings.Split always yields at least one line, and the
\* first window is always emitted, so there is at least one chunk.
GenericParse(content) ==
    LET n == IF content = 0 THEN 1 ELSE content
    IN  [i \in 1..n |-> [Text |-> ChunkText(content, i), Embedding |-> NoEmbedding]]

\* The parser Load chooses by extension.
ParseFor(p, content) ==
    IF IsMarkdown(p) THEN MarkdownParse(content) ELSE GenericParse(content)

NoIndex == [DocID |-> "none"]

\* queue.json: absent, or the JSON object {"doc_ids": ids}.
NoQueueFile == [exists |-> FALSE, doc_ids |-> <<>>]
QueueFileOf(ids) == [exists |-> TRUE, doc_ids |-> ids]
NoResult == [kind |-> "none"]

VARIABLES
    files,      \* path -> content currently in the file
    heap,       \* sequence of Index values; an Index pointer is a position
    mem,        \* FileCache.mem: DocID -> pointer (0: absent)
    disk,       \* <cacheDir>/<DocID>.index.json: DocID -> Index value or NoIndex
    queueFile,  \* <cacheDir>/queue.json
    queue,      \* Indexer.queue: pointers waiting for a worker
    ready,      \* embedding.Status.ready
    stats,      \* Indexer.stats
    clock,      \* Clock.Now()
    embedder,   \* "none": no embedder configured; "ok": EmbedBatch always
                \* succeeds; "flaky": EmbedBatch may fail
    loads,      \* per caller: the position of its Load call and its locals
    workers,    \* per worker: the position of embeddingWorker and its locals
    glob,       \* the call of LoadGlob in progress and its locals
    ret,        \* what the step just taken returned from Load (NoReturn: nothing)
    hist        \* bookkeeping for the properties (no effect on the program)

vars == <<files, heap, mem, disk, queueFile, queue, ready, stats, clock, embedder,
          loads, workers, glob, ret, hist>>

IdleLoad == [pc |-> "idle", path |-> "", content |-> 0, hash |-> 0, obj |-> 0,
             stale |-> FALSE, prior |-> NoResult, parsed |-> FALSE, enq |-> 0]
IdleWorker == [pc |-> "wait", batch |-> <<>>, total |-> 0, embs |-> <<>>,
               i |-> 0, offset |-> 0, failed |-> FALSE]

(***************************************************************************)
(* Values.                                                                 *)
(***************************************************************************)
\* A plausible slip: the result carries the time of the call, not of indexing.
LoadResultNow(index, fromCache) ==
    [kind |-> "ok", DocID |-> index.DocID, Path |-> index.Path,
     NumChunks |-> index.NumChunks, FromCache |-> fromCache,
     IndexedAt |-> clock]

\* LoadResult
LoadResult(index, fromCache) ==
    [kind |-> "ok", DocID |-> index.DocID, Path |-> index.Path,
     NumChunks |-> index.NumChunks, FromCache |-> fromCache,
     IndexedAt |-> index.IndexedAt]

LoadError(msg) == [kind |-> "error", msg |-> msg]

\* The Index that Load builds in step 4.
NewIndex(p, content, hash, now) ==
    LET chunks == ParseFor(p, content)
    IN  [DocID |-> DocIDForPath(p), Path |-> p, FileHash |-> hash,
         IndexedAt |-> now, Chunks |-> chunks, NumChunks |-> Len(chunks),
         Version |-> CacheVersion]

\* A cache file that json.Unmarshal rejects: empty, cut short, or not JSON.
Corrupted == [DocID |-> "corrupted"]

\* A plausible slip: the version of the record is not looked at.
LoadFromDiskAnyVersion(d) ==
    IF disk[d] = NoIndex THEN [err |-> "index not found"]
    ELSE IF disk[d] = Corrupted THEN [err |-> "parse cache file"]
    ELSE [err |-> "", index |-> disk[d]]

\* FileCache.LoadFromDisk: ErrNotFound for a missing file, a parse error for
\* one that is not JSON, ErrVersionMismatch for a record of another version,
\* else the Index.
LoadFromDisk(d) ==
    IF disk[d] = NoIndex THEN [err |-> "index not found"]
    ELSE IF disk[d] = Corrupted THEN [err |-> "parse cache file"]
    ELSE IF disk[d].Version # CacheVersion THEN [err |-> "cache version mismatch"]
    ELSE [err |-> "", index |-> disk[d]]

\* FileCache.LoadFromDisk succeeds.
LoadFromDiskOK(d) == LoadFromDisk(d).err = ""

\* Step 3 of Load: the disk record is valid for this path and hash.
DiskFresh(d, p, hash) ==
    /\ LoadFromDiskOK(d)
    /\ disk[d].Path = p
    /\ disk[d].FileHash = hash

AllEmbedded(index) == \A k \in 1..Len(index.Chunks) : index.Chunks[k].Embedding # NoEmbedding
SomeEmbedded(index) == \E k \in 1..Len(index.Chunks) : index.Chunks[k].Embedding # NoEmbedding

\* embedding.Status.IsReady
IsReady(d) == ready[d]

(***************************************************************************)
(* Initial state: New() on an empty cache directory.  Hydrate finds no     *)
(* index file and loadQueue finds no queue.json; the workers wait.         *)
(***************************************************************************)
NoReturn == [caller |-> "none"]

\* No call of LoadGlob is in progress.
NoGlob == [pc |-> "idle"]

\* What has happened so far in a process that has just started.
NoHistory ==
    [nLoads |-> 0, nEdits |-> 0,
     done |-> [p \in Paths |-> NoResult],
     raced |-> [p \in Paths |-> FALSE]]

\* a.md starts empty, b.go with one section; e is the embedder configured
\* and h what is remembered of the call of New.
InitOf(e, h) ==
    /\ files = [p \in Paths |-> IF IsMarkdown(p) THEN 0 ELSE 1]
    /\ heap = <<>>
    /\ mem = [d \in DocIDs |-> 0]
    /\ disk = [d \in DocIDs |-> NoIndex]
    /\ queueFile = NoQueueFile
    /\ glob = NoGlob
    /\ queue = <<>>
    /\ ready = [d \in DocIDs |-> FALSE]
    /\ stats = [QueueLength |-> 0, EmbeddedCount |-> 0, ActiveWorkers |-> 0]
    /\ clock = 1
    /\ embedder = e
    /\ loads = [c \in Callers |-> IdleLoad]
    /\ workers = [w \in Workers |-> IdleWorker]
    /\ ret = NoReturn
    /\ hist = h

InitWith(e) == InitOf(e, NoHistory)

\* No embedder, or one whose EmbedBatch can fail.
Init == \E e \in {"none", "flaky"} : InitWith(e)

(***************************************************************************)
(* Bookkeeping.                                                            *)
(***************************************************************************)
\* Another caller is inside Load for the same path, past the memory check.
Overlaps(c, p) == \E o \in Callers \ {c} : loads[o].pc # "idle" /\ loads[o].path = p

\* The cached Index for p (memory, else disk) was built from other bytes than
\* the file holds now.
CachedStale(p) ==
    LET d == DocIDForPath(p)
    IN  IF mem[d] # 0 THEN heap[mem[d]].FileHash # HashFile(files[p])
        ELSE LoadFromDiskOK(d) /\ disk[d].FileHash # HashFile(files[p])

\* The return of a Load call, held in ret for the one state that follows the
\* returning step: what it returned, and what the call met and did.
\*   stale:  at the call, the cached Index was built from other bytes
\*   prior:  what an earlier Load of the path, complete before the call, returned
\*           (NoResult: none, or the file was modified since)
\*   parsed: the call ran the parser;  enq: how often it sent to the queue
Return(c, p, r, l) ==
    [caller |-> "load", path |-> p, result |-> r, stale |-> l.stale, prior |-> l.prior,
     parsed |-> l.parsed, enq |-> l.enq]

\* hist after a Load(p) returned r.  Where the returns of Load are followed
\* (hist.returns: per path, what the calls of Load returned to their
\* callers since LoadGlob was called), r is added to those of p.
Returned(p, r) ==
    LET h == [hist EXCEPT !.done[p] = IF r.kind = "ok" THEN r ELSE @]
    IN  IF "returns" \in DOMAIN hist THEN [h EXCEPT !.returns[p] = Append(@, r)] ELSE h

(***************************************************************************)
(* Indexer.Load, one action per step that touches shared state.            *)
(***************************************************************************)
\* Step 1, hit: the memory cache has the Index; Load returns at once.
LoadHit(c, p) ==
    /\ loads[c].pc = "idle"
    /\ mem[DocIDForPath(p)] # 0
    /\ LET r == LoadResult(heap[mem[DocIDForPath(p)]], TRUE)
       IN  /\ ret' = Return(c, p, r, [IdleLoad EXCEPT !.stale = CachedStale(p),
                                                      !.prior = hist.done[p]])
           /\ hist' = Returned(p, r)
    /\ UNCHANGED <<files, heap, mem, disk, queue, ready, stats, clock, embedder, glob, queueFile,
                   loads, workers>>

\* Step 1, miss, and step 2a: reader.ReadFile.
LoadMiss(c, p) ==
    /\ loads[c].pc = "idle"
    /\ mem[DocIDForPath(p)] = 0
    /\ hist.nLoads < MaxLoads
    /\ loads' = [loads EXCEPT ![c] = [IdleLoad EXCEPT !.pc = "hash", !.path = p,
                                                      !.content = files[p],
                                                      !.stale = CachedStale(p),
                                                      !.prior = hist.done[p]]]
    /\ hist' = [hist EXCEPT !.nLoads = @ + 1,
                            !.raced[p] = @ \/ Overlaps(c, p)]
    /\ ret' = NoReturn
    /\ UNCHANGED <<files, heap, mem, disk, queue, ready, stats, clock, embedder, glob, queueFile,
                   workers>>

\* Step 2b: reader.HashFile reads the file again; step 3: the disk cache, where
\* a record for the same path and hash warms the memory cache and returns.
LoadHash(c) ==
    /\ loads[c].pc = "hash"
    /\ LET p == loads[c].path
           d == DocIDForPath(p)
           fileHash == HashFile(files[p])
       IN  IF DiskFresh(d, p, fileHash)
           THEN LET r == LoadResult(disk[d], TRUE)
                IN  /\ heap' = Append(heap, disk[d])
                    /\ mem' = [mem EXCEPT ![d] = Len(heap) + 1]
                    /\ ret' = Return(c, p, r, loads[c])
                    /\ hist' = Returned(p, r)
                    /\ loads' = [loads EXCEPT ![c] = IdleLoad]
           ELSE /\ loads' = [loads EXCEPT ![c].hash = fileHash, ![c].pc = "parse"]
                /\ ret' = NoReturn
                /\ UNCHANGED <<heap, mem, hist>>
    /\ UNCHANGED <<files, disk, queue, ready, stats, clock, embedder, glob, queueFile, workers>>

\* Steps 4 and 5a: parse, build the Index, cache.Set.
LoadParse(c) ==
    /\ loads[c].pc = "parse"
    /\ LET p == loads[c].path
           index == NewIndex(p, loads[c].content, loads[c].hash, clock)
       IN  /\ heap' = Append(heap, index)
           /\ mem' = [mem EXCEPT ![index.DocID] = Len(heap) + 1]
           /\ loads' = [loads EXCEPT ![c].obj = Len(heap) + 1, ![c].pc = "save",
                                     ![c].parsed = TRUE]
    /\ clock' = clock + 1
    /\ ret' = NoReturn
    /\ UNCHANGED <<files, disk, queue, ready, stats, embedder, glob, queueFile, workers, hist>>

\* What Load returns after parsing.
Fresh(c) == LoadResult(heap[loads[c].obj], FALSE)

\* Step 5b: cache.SaveToDisk; a failure returns the error.
LoadSave(c) ==
    /\ loads[c].pc = "save"
    /\ LET p == loads[c].path
           index == heap[loads[c].obj]
       IN  \/ /\ disk' = [disk EXCEPT ![index.DocID] = index]
              /\ IF embedder # "none"
                 THEN /\ loads' = [loads EXCEPT ![c].pc = "enqueue"]
                      /\ ret' = NoReturn
                      /\ UNCHANGED hist
                 ELSE /\ loads' = [loads EXCEPT ![c] = IdleLoad]
                      /\ ret' = Return(c, p, Fresh(c), loads[c])
                      /\ hist' = Returned(p, Fresh(c))
           \/ /\ ret' = Return(c, p, LoadError("save cache"), loads[c])
              /\ hist' = Returned(p, LoadError("save cache"))
              /\ loads' = [loads EXCEPT ![c] = IdleLoad]
              /\ UNCHANGED disk
    /\ UNCHANGED <<files, heap, mem, queue, ready, stats, clock, embedder, glob, queueFile, workers>>

\* A plausible slip: the default arm drops the Index instead of blocking.
EnqueueOrDrop(q, ptr) ==
    IF Len(q) < QueueCap THEN [sent |-> TRUE, q |-> Append(q, ptr)]
                         ELSE [sent |-> TRUE, q |-> q]

\* The select of step 6 on a queue q: with room the first arm sends; without,
\* the default arm's send blocks (sent = FALSE: the caller stays where it is).
Enqueue(q, ptr) ==
    IF Len(q) < QueueCap THEN [sent |-> TRUE, q |-> Append(q, ptr)]
                         ELSE [sent |-> FALSE, q |-> q]

LoadEnqueue(c) ==
    /\ loads[c].pc = "enqueue"
    /\ Enqueue(queue, loads[c].obj).sent
    /\ queue' = Enqueue(queue, loads[c].obj).q
    /\ loads' = [loads EXCEPT ![c].pc = "count", ![c].enq = @ + 1]
    /\ ret' = NoReturn
    /\ UNCHANGED <<files, heap, mem, disk, ready, stats, clock, embedder, glob, queueFile, workers,
                   hist>>

\* Step 6, after the send: the counters, under statusMu; then return.
LoadCount(c) ==
    /\ loads[c].pc = "count"
    /\ stats' = [stats EXCEPT !.QueueLength = @ + 1]
    /\ ret' = Return(c, loads[c].path, Fresh(c), loads[c])
    /\ hist' = Returned(loads[c].path, Fresh(c))
    /\ loads' = [loads EXCEPT ![c] = IdleLoad]
    /\ UNCHANGED <<files, heap, mem, disk, queue, ready, clock, embedder, glob, queueFile, workers>>

\* The user modifies a file.
Edit(p) ==
    /\ hist.nEdits < MaxEdits
    /\ \E content \in Contents \ {files[p]} : files' = [files EXCEPT ![p] = content]
    /\ hist' = [hist EXCEPT !.nEdits = @ + 1, !.done[p] = NoResult]
    /\ ret' = NoReturn
    /\ UNCHANGED <<heap, mem, disk, queue, ready, stats, clock, embedder, glob, queueFile, loads,
                   workers>>

(***************************************************************************)
(* Indexer.LoadSite.                                                       *)
(***************************************************************************)
\* fetcher.FetchAsMarkdown: an error, or the page as markdown.
FetchOutcomes ==
    {[err |-> TRUE, markdown |-> 0]} \cup {[err |-> FALSE, markdown |-> m] : m \in Contents}

SiteLoadResult(index, u, fromCache) ==
    [kind |-> "ok", DocID |-> index.DocID, URL |-> u,
     NumChunks |-> index.NumChunks, FromCache |-> fromCache,
     IndexedAt |-> index.IndexedAt]

\* The Index that LoadSite builds in step 6: parsed from the fetched markdown
\* under the local path, with the URL kept in SourceURL.
SiteIndex(u, markdown, now) ==
    LET chunks == ParseFor(MarkdownPath(docIDForURL(u)), markdown)
    IN  [DocID |-> docIDForURL(u), Path |-> MarkdownPath(docIDForURL(u)),
         SourceURL |-> u, FileHash |-> HashFile(markdown), IndexedAt |-> now,
         Chunks |-> chunks, NumChunks |-> Len(chunks), Version |-> CacheVersion]

\* The return of a LoadSite call, held in ret for the state that follows:
\* obj is the Index the call built (0: none).
ReturnSite(c, u, r, obj) ==
    [caller |-> "loadSite", url |-> u, result |-> r, obj |-> obj]

\* Steps 3 to 7 of LoadSite, for what the fetcher gave: fetch, save the
\* markdown, hash, parse, cache.Set, cache.SaveToDisk, return.  Either write
\* may fail.  Nothing is sent to the queue.
LoadSiteFetch(c, u, fetched) ==
    IF fetched.err
    THEN /\ ret' = ReturnSite(c, u, LoadError("fetch site"), 0)
         /\ UNCHANGED <<heap, mem, disk, clock, hist>>
    ELSE \/ /\ ret' = ReturnSite(c, u, LoadError("save markdown"), 0)
            /\ UNCHANGED <<heap, mem, disk, clock, hist>>
         \/ /\ hist.nLoads < MaxLoads
            /\ LET index == SiteIndex(u, fetched.markdown, clock)
               IN  /\ heap' = Append(heap, index)
                   /\ mem' = [mem EXCEPT ![index.DocID] = Len(heap) + 1]
                   /\ clock' = clock + 1
                   /\ hist' = [hist EXCEPT !.nLoads = @ + 1]
                   /\ \/ /\ disk' = [disk EXCEPT ![index.DocID] = index]
                         /\ ret' = ReturnSite(c, u, SiteLoadResult(index, u, FALSE),
                                              Len(heap) + 1)
                      \/ /\ ret' = ReturnSite(c, u, LoadError("save cache"), 0)
                         /\ UNCHANGED disk

\* LoadSite(u, force) by a caller that is not inside Load; the fetcher is
\* configured.  Without force the memory cache answers first, then a disk
\* record whose Path is the URL.
LoadSite(c, u, force) ==
    /\ loads[c].pc = "idle"
    /\ LET d == docIDForURL(u)
       IN  IF ~force /\ mem[d] # 0
           THEN /\ ret' = ReturnSite(c, u,
                                     SiteLoadResult(heap[mem[d]], heap[mem[d]].Path, TRUE), 0)
                /\ UNCHANGED <<heap, mem, disk, clock, hist>>
           ELSE IF ~force /\ LoadFromDiskOK(d) /\ disk[d].Path = u
           THEN /\ heap' = Append(heap, disk[d])
                /\ mem' = [mem EXCEPT ![d] = Len(heap) + 1]
                /\ ret' = ReturnSite(c, u, SiteLoadResult(disk[d], disk[d].Path, TRUE), 0)
                /\ UNCHANGED <<disk, clock, hist>>
           ELSE \E fetched \in FetchOutcomes : LoadSiteFetch(c, u, fetched)
    /\ UNCHANGED <<files, queue, ready, stats, embedder, glob, queueFile, loads, workers>>

(***************************************************************************)
(* The embedder.                                                           *)
(***************************************************************************)
\* Indexer.prepareTextForEmbedding: the chunk text, with a "File: ..." line in
\* front for a file that is not markdown.
prepareTextForEmbedding(index, k) ==
    <<IF IsMarkdown(index.Path) THEN "" ELSE index.Path, index.Chunks[k].Text>>

\* The vector of a prepared text (a non-empty slice, named by its text).
VectorOf(text) == <<"vec", text>>

RECURSIVE Flatten(_, _)
\* allTexts of generateBatchEmbeddings: the prepared texts of the Indices
\* ptrs, in batch order, read from heap h.
Flatten(h, ptrs) ==
    IF ptrs = <<>> THEN <<>>
    ELSE LET index == h[Head(ptrs)]
         IN  [k \in 1..Len(index.Chunks) |-> prepareTextForEmbedding(index, k)]
             \o Flatten(h, Tail(ptrs))

\* What EmbedBatch may return for texts: the vectors in input order; and, for
\* an embedder that can fail, an error or a result that is one vector short.
EmbedBatch(texts) ==
    LET vecs == [k \in 1..Len(texts) |-> VectorOf(texts[k])]
    IN  {[err |-> FALSE, vecs |-> vecs]} \cup
        IF embedder = "flaky"
        THEN {[err |-> TRUE, vecs |-> <<>>],
              [err |-> FALSE, vecs |-> SubSeq(vecs, 1, Len(vecs) - 1)]}
        ELSE {}

(***************************************************************************)
(* Indexer.embeddingWorker and generateBatchEmbeddings.                    *)
(***************************************************************************)
\* 1. Wait for one item.
WorkerTake(w) ==
    /\ workers[w].pc = "wait"
    /\ embedder # "none"
    /\ queue # <<>>
    /\ queue' = Tail(queue)
    /\ workers' = [workers EXCEPT ![w] =
                     [IdleWorker EXCEPT !.pc = "collect",
                                        !.batch = <<Head(queue)>>,
                                        !.total = Len(heap[Head(queue)].Chunks)]]
    /\ ret' = NoReturn
    /\ UNCHANGED <<files, heap, mem, disk, ready, stats, clock, embedder, glob, queueFile, loads, hist>>

\* 3. Another item arrives before the timer fires.
WorkerCollect(w) ==
    /\ workers[w].pc = "collect"
    /\ workers[w].total < maxBatchChunks
    /\ queue # <<>>
    /\ queue' = Tail(queue)
    /\ workers' = [workers EXCEPT ![w].batch = Append(@, Head(queue)),
                                  ![w].total = @ + Len(heap[Head(queue)].Chunks)]
    /\ ret' = NoReturn
    /\ UNCHANGED <<files, heap, mem, disk, ready, stats, clock, embedder, glob, queueFile, loads, hist>>

\* EmbedBatch failed on allTexts: an error, or a result of another length.
BatchFailed(allTexts, res) == res.err \/ Len(res.vecs) # Len(allTexts)

\* A plausible slip: the length of the result is not checked.
AfterEmbedUnchecked(allTexts, res) ==
    IF res.err THEN "finish" ELSE "assign"

\* Where generateBatchEmbeddings goes after EmbedBatch returned res for
\* allTexts: into the distribution loop, or out.
AfterEmbed(allTexts, res) ==
    IF res.err THEN "finish"
    ELSE IF Len(res.vecs) # Len(allTexts) THEN "finish"
    ELSE "assign"

\* 3-4. The timer fires, or the batch is full: ActiveWorkers++, and
\* generateBatchEmbeddings up to the distribution loop.
WorkerEmbed(w) ==
    /\ workers[w].pc = "collect"
    /\ stats' = [stats EXCEPT !.ActiveWorkers = @ + 1]
    /\ LET allTexts == Flatten(heap, workers[w].batch)
       IN  IF Len(allTexts) = 0
           THEN workers' = [workers EXCEPT ![w].pc = "finish"]
           ELSE \E res \in EmbedBatch(allTexts) :
                  workers' = [workers EXCEPT
                                ![w].pc = AfterEmbed(allTexts, res),
                                ![w].embs = IF AfterEmbed(allTexts, res) = "assign"
                                            THEN res.vecs ELSE <<>>,
                                ![w].failed = BatchFailed(allTexts, res),
                                ![w].i = 1,
                                ![w].offset = 0]
    /\ ret' = NoReturn
    /\ UNCHANGED <<files, heap, mem, disk, queue, ready, clock, embedder, glob, queueFile,
                   loads, hist>>

\* The Index a worker's loop is at.
Current(w) == workers[w].batch[workers[w].i]

\* A plausible slip: the loop stops one chunk early.
AssignedButLast(index, embs, offset) ==
    [index EXCEPT !.Chunks = [k \in 1..Len(index.Chunks) |->
                                IF k < Len(index.Chunks)
                                THEN [index.Chunks[k] EXCEPT !.Embedding = embs[offset + k]]
                                ELSE index.Chunks[k]]]

\* index with its chunks' Embedding fields assigned from embs at offset.
Assigned(index, embs, offset) ==
    [index EXCEPT !.Chunks = [k \in 1..Len(index.Chunks) |->
                                [index.Chunks[k] EXCEPT !.Embedding = embs[offset + k]]]]

\* A plausible slip: the offset is not advanced, so that every Index of the
\* batch is given the vectors at the front of the result.
WorkerAssignFromFront(w) ==
    /\ workers[w].pc = "assign"
    /\ LET ptr == workers[w].batch[workers[w].i]
           index == heap[ptr]
       IN  /\ heap' = [heap EXCEPT ![ptr] = Assigned(index, workers[w].embs, 0)]
           /\ mem' = [mem EXCEPT ![index.DocID] = ptr]
           /\ workers' = [workers EXCEPT ![w].pc = "save"]
    /\ ret' = NoReturn
    /\ UNCHANGED <<files, disk, queue, ready, stats, clock, embedder, glob, queueFile, loads, hist>>

\* Distribution loop: assign the chunks of one Index in place, cache.Set.
WorkerAssign(w) ==
    /\ workers[w].pc = "assign"
    /\ LET ptr == Current(w)
           index == heap[ptr]
       IN  /\ heap' = [heap EXCEPT ![ptr] = Assigned(index, workers[w].embs, workers[w].offset)]
           /\ mem' = [mem EXCEPT ![index.DocID] = ptr]
           /\ workers' = [workers EXCEPT ![w].offset = @ + Len(index.Chunks),
                                         ![w].pc = "save"]
    /\ ret' = NoReturn
    /\ UNCHANGED <<files, disk, queue, ready, stats, clock, embedder, glob, queueFile, loads, hist>>

\* embedding.Status.SetReady
SetReady(r, d) == [r EXCEPT ![d] = TRUE]

\* Distribution loop: cache.SaveToDisk (the write succeeds).
WorkerSave(w) ==
    /\ workers[w].pc = "save"
    /\ disk' = [disk EXCEPT ![heap[Current(w)].DocID] = heap[Current(w)]]
    /\ workers' = [workers EXCEPT ![w].pc = "ready"]
    /\ ret' = NoReturn
    /\ UNCHANGED <<files, heap, mem, queue, ready, stats, clock, embedder, glob, queueFile, loads, hist>>

\* Distribution loop: SetReady, then the next Index of the batch.
WorkerReady(w) ==
    /\ workers[w].pc = "ready"
    /\ ready' = SetReady(ready, heap[Current(w)].DocID)
    /\ workers' = [workers EXCEPT ![w].i = @ + 1,
                                  ![w].pc = IF workers[w].i < Len(workers[w].batch)
                                            THEN "assign" ELSE "finish"]
    /\ ret' = NoReturn
    /\ UNCHANGED <<files, heap, mem, disk, queue, stats, clock, embedder, glob, queueFile, loads, hist>>

\* 4. After generateBatchEmbeddings: the counters, then back to waiting.
WorkerFinish(w) ==
    /\ workers[w].pc = "finish"
    /\ stats' = [stats EXCEPT !.ActiveWorkers = @ - 1,
                              !.QueueLength = @ - Len(workers[w].batch),
                              !.EmbeddedCount = @ + Len(workers[w].batch)]
    /\ workers' = [workers EXCEPT ![w] = IdleWorker]
    /\ ret' = NoReturn
    /\ UNCHANGED <<files, heap, mem, disk, queue, ready, clock, embedder, glob, queueFile, loads, hist>>

(***************************************************************************)
(* The specification.                                                      *)
(***************************************************************************)
\* A step of an embedding worker.
WorkerStep(w) ==
    \/ WorkerTake(w)
    \/ WorkerCollect(w)
    \/ WorkerEmbed(w)
    \/ WorkerAssign(w)
    \/ WorkerSave(w)
    \/ WorkerReady(w)
    \/ WorkerFinish(w)

Next ==
    \/ \E c \in Callers, p \in Paths : LoadHit(c, p)
    \/ \E c \in Callers, p \in Paths : LoadMiss(c, p)
    \/ \E c \in Callers : LoadHash(c)
    \/ \E c \in Callers : LoadParse(c)
    \/ \E c \in Callers : LoadSave(c)
    \/ \E c \in Callers : LoadEnqueue(c)
    \/ \E c \in Callers : LoadCount(c)
    \/ \E p \in Paths : Edit(p)
    \/ \E w \in Workers : WorkerTake(w)
    \/ \E w \in Workers : WorkerCollect(w)
    \/ \E w \in Workers : WorkerEmbed(w)
    \/ \E w \in Workers : WorkerAssign(w)
    \/ \E w \in Workers : WorkerSave(w)
    \/ \E w \in Workers : WorkerReady(w)
    \/ \E w \in Workers : WorkerFinish(w)

Spec == Init /\ [][Next]_vars

\* The system with an embedder whose EmbedBatch always succeeds, scheduled
\* fairly: a worker goroutine that can step does step, and so does a caller
\* inside Load.
LiveInit == InitWith("ok")

\* Loads that miss the memory cache (a hit touches nothing a worker reads),
\* edits and the workers.
LiveNext ==
    \/ \E c \in Callers, p \in Paths : LoadMiss(c, p)
    \/ \E c \in Callers : LoadHash(c)
    \/ \E c \in Callers : LoadParse(c)
    \/ \E c \in Callers : LoadSave(c)
    \/ \E c \in Callers : LoadEnqueue(c)
    \/ \E c \in Callers : LoadCount(c)
    \/ \E p \in Paths : Edit(p)
    \/ \E w \in Workers : WorkerTake(w)
    \/ \E w \in Workers : WorkerCollect(w)
    \/ \E w \in Workers : WorkerEmbed(w)
    \/ \E w \in Workers : WorkerAssign(w)
    \/ \E w \in Workers : WorkerSave(w)
    \/ \E w \in Workers : WorkerReady(w)
    \/ \E w \in Workers : WorkerFinish(w)

\* A step of a call that is inside Load.
LoadProgress(c) ==
    \/ LoadHash(c)
    \/ LoadParse(c)
    \/ LoadSave(c)
    \/ LoadEnqueue(c)
    \/ LoadCount(c)

LiveSpec ==
    /\ LiveInit
    /\ [][LiveNext]_vars
    /\ \A w \in Workers : WF_vars(WorkerStep(w))
    /\ \A c \in Callers : WF_vars(LoadProgress(c))

(***************************************************************************)
(* Indexer.LoadGlobWithExcludes.  The goroutine that calls it is c1; the   *)
(* goroutines of its pool are the callers of the model (maxWorkers = 4,    *)
(* scaled), and it loads sequentially up to GlobSequentialLimit files      *)
(* (2, scaled).                                                            *)
(***************************************************************************)
MaxGlobs == 2
GlobSequentialLimit == 1
GlobCaller == "c1"

\* filepath.Glob, or findFilesRecursive for a pattern with "**": "[" is a
\* malformed pattern, "docs" a directory.
Patterns == {"", "[", "*.txt", "docs", "*.md", "*"}
Glob(pattern) ==
    CASE pattern = "[" -> [err |-> TRUE, matches |-> <<>>]
      [] pattern = "docs" -> [err |-> FALSE, matches |-> <<"docs">>]
      [] pattern = "*.md" -> [err |-> FALSE, matches |-> <<"a.md">>]
      [] pattern = "*" -> [err |-> FALSE, matches |-> <<"a.md", "b.go", "docs">>]
      [] OTHER -> [err |-> FALSE, matches |-> <<>>]

\* os.Stat(path): info.IsDir()
IsDir(path) == path = "docs"

\* isExcluded, for exclude patterns that match the paths in excludes.
isExcluded(path, excludes) == path \in excludes

\* The filter of the matches.
Surviving(matches, excludes) ==
    SelectSeq(matches, LAMBDA path : ~IsDir(path) /\ ~isExcluded(path, excludes))

EmptyGlobResult == [Loaded |-> 0, Cached |-> 0, Failed |-> 0, Errors |-> <<>>, Results |-> <<>>]

\* A plausible slip: a file that failed is skipped without a trace.
CollectLoaded(result, path, r) ==
    IF r.kind = "error" THEN result
    ELSE [result EXCEPT !.Loaded = @ + 1,
                        !.Cached = @ + (IF r.FromCache THEN 1 ELSE 0),
                        !.Results = Append(@, r)]

\* The body of the loops that collect: what Load returned for path goes
\* into the result.
Collect(result, path, r) ==
    IF r.kind = "error"
    THEN [result EXCEPT !.Failed = @ + 1, !.Errors = Append(@, <<path, r.msg>>)]
    ELSE [result EXCEPT !.Loaded = @ + 1,
                        !.Cached = @ + (IF r.FromCache THEN 1 ELSE 0),
                        !.Results = Append(@, r)]

GlobError(pattern, msg) == [caller |-> "loadGlob", pattern |-> pattern, err |-> msg]

\* LoadGlobWithExcludes up to its loop: the errors, the filter, and the
\* choice between the sequential loop and the pool (whose jobs channel
\* takes every file without blocking and is then closed).
LoadGlobStart(pattern, excludes) ==
    /\ glob.pc = "idle"
    /\ hist.nGlobs < MaxGlobs
    /\ \A c \in Callers : loads[c].pc = "idle"
    /\ LET found == Glob(pattern)
           paths == Surviving(found.matches, excludes)
           started(pc) == [pc |-> pc, pattern |-> pattern, files |-> paths, i |-> 1,
                           jobs |-> IF pc = "pool" THEN paths ELSE <<>>,
                           job |-> [c \in Callers |-> ""],
                           exited |-> [c \in Callers |-> FALSE],
                           results |-> <<>>, closed |-> FALSE,
                           result |-> EmptyGlobResult]
       IN  IF pattern = ""
           THEN ret' = GlobError(pattern, "pattern is required") /\ UNCHANGED glob
           ELSE IF found.err
           THEN ret' = GlobError(pattern, "invalid glob pattern") /\ UNCHANGED glob
           ELSE IF Len(found.matches) = 0
           THEN ret' = GlobError(pattern, "no files match pattern") /\ UNCHANGED glob
           ELSE IF Len(paths) = 0
           THEN /\ ret' = GlobError(pattern, "no files match pattern after exclusions")
                /\ UNCHANGED glob
           ELSE /\ glob' = started(IF Len(paths) <= GlobSequentialLimit THEN "seq" ELSE "pool")
                /\ ret' = NoReturn
    /\ hist' = [hist EXCEPT !.nGlobs = @ + 1, !.returns = [p \in Paths |-> <<>>]]
    /\ UNCHANGED <<files, heap, mem, disk, queueFile, queue, ready, stats, clock, embedder,
                   loads, workers>>

\* The path that caller c is to load next: in the sequential loop the
\* file at i, in the pool the job that c took.
JobOf(c) ==
    IF glob.pc = "seq" THEN (IF c = GlobCaller /\ glob.i <= Len(glob.files)
                             THEN glob.files[glob.i] ELSE "")
    ELSE IF glob.pc = "pool" THEN glob.job[c]
    ELSE ""

\* idx.Load(path), the call: step 1 of Load, by the goroutine that holds
\* the path and has not called yet.
GlobCall(c) ==
    /\ JobOf(c) # ""
    /\ hist.returns[JobOf(c)] = <<>>
    /\ LoadHit(c, JobOf(c)) \/ LoadMiss(c, JobOf(c))

\* The sequential loop, after Load has returned: count the file, go on.
GlobSeqCollect ==
    /\ glob.pc = "seq"
    /\ JobOf(GlobCaller) # ""
    /\ hist.returns[JobOf(GlobCaller)] # <<>>
    /\ loads[GlobCaller].pc = "idle"
    /\ glob' = [glob EXCEPT !.i = @ + 1,
                            !.result = Collect(@, JobOf(GlobCaller),
                                               hist.returns[JobOf(GlobCaller)][1])]
    /\ ret' = NoReturn
    /\ UNCHANGED <<files, heap, mem, disk, queueFile, queue, ready, stats, clock, embedder,
                   loads, workers, hist>>

\* A pool worker receives a path from jobs.
GlobTake(c) ==
    /\ glob.pc = "pool"
    /\ glob.job[c] = "" /\ ~glob.exited[c]
    /\ glob.jobs # <<>>
    /\ glob' = [glob EXCEPT !.job[c] = Head(glob.jobs), !.jobs = Tail(@)]
    /\ ret' = NoReturn
    /\ UNCHANGED <<files, heap, mem, disk, queueFile, queue, ready, stats, clock, embedder,
                   loads, workers, hist>>

\* A pool worker sends what Load returned to results (buffered for every
\* file: the send does not block).
GlobSend(c) ==
    /\ glob.pc = "pool"
    /\ glob.job[c] # ""
    /\ hist.returns[glob.job[c]] # <<>>
    /\ loads[c].pc = "idle"
    /\ glob' = [glob EXCEPT !.results = Append(@, [path |-> glob.job[c],
                                                  r |-> hist.returns[glob.job[c]][1]]),
                            !.job[c] = ""]
    /\ ret' = NoReturn
    /\ UNCHANGED <<files, heap, mem, disk, queueFile, queue, ready, stats, clock, embedder,
                   loads, workers, hist>>

\* A pool worker finds jobs closed and empty: wg.Done().
GlobExit(c) ==
    /\ glob.pc = "pool"
    /\ glob.job[c] = "" /\ ~glob.exited[c]
    /\ glob.jobs = <<>>
    /\ glob' = [glob EXCEPT !.exited[c] = TRUE]
    /\ ret' = NoReturn
    /\ UNCHANGED <<files, heap, mem, disk, queueFile, queue, ready, stats, clock, embedder,
                   loads, workers, hist>>

\* wg.Wait() returns: close(results).
GlobClose ==
    /\ glob.pc = "pool"
    /\ ~glob.closed
    /\ \A c \in Callers : glob.exited[c]
    /\ glob' = [glob EXCEPT !.closed = TRUE]
    /\ ret' = NoReturn
    /\ UNCHANGED <<files, heap, mem, disk, queueFile, queue, ready, stats, clock, embedder,
                   loads, workers, hist>>

\* The loop over results, one result.
GlobCollect ==
    /\ glob.pc = "pool"
    /\ glob.results # <<>>
    /\ glob' = [glob EXCEPT !.results = Tail(@),
                            !.result = Collect(@, Head(glob.results).path,
                                               Head(glob.results).r)]
    /\ ret' = NoReturn
    /\ UNCHANGED <<files, heap, mem, disk, queueFile, queue, ready, stats, clock, embedder,
                   loads, workers, hist>>

\* LoadGlobWithExcludes returns its result: the sequential loop is over,
\* or results is closed and empty.
GlobReturn ==
    /\ \/ glob.pc = "seq" /\ glob.i > Len(glob.files)
       \/ glob.pc = "pool" /\ glob.closed /\ glob.results = <<>>
    /\ ret' = [caller |-> "loadGlob", pattern |-> glob.pattern, err |-> "",
               files |-> glob.files, pooled |-> glob.pc = "pool", result |-> glob.result]
    /\ glob' = NoGlob
    /\ UNCHANGED <<files, heap, mem, disk, queueFile, queue, ready, stats, clock, embedder,
                   loads, workers, hist>>

GlobInit ==
    \E e \in {"none", "ok"} :
        InitOf(e, NoHistory @@ [nGlobs |-> 0, returns |-> [p \in Paths |-> <<>>]])

\* A step of LoadGlob after its start.
GlobStep ==
    \/ \E c \in Callers : GlobCall(c)
    \/ GlobSeqCollect
    \/ \E c \in Callers : GlobTake(c)
    \/ \E c \in Callers : GlobSend(c)
    \/ \E c \in Callers : GlobExit(c)
    \/ GlobClose
    \/ GlobCollect
    \/ GlobReturn

GlobNext ==
    \/ \E pattern \in Patterns, excludes \in {{}, {"b.go"}} : LoadGlobStart(pattern, excludes)
    \/ GlobStep
    \/ \E c \in Callers : LoadHash(c)
    \/ \E c \in Callers : LoadParse(c)
    \/ \E c \in Callers : LoadSave(c)
    \/ \E c \in Callers : LoadEnqueue(c)
    \/ \E c \in Callers : LoadCount(c)
    \/ \E w \in Workers : WorkerTake(w)
    \/ \E w \in Workers : WorkerCollect(w)
    \/ \E w \in Workers : WorkerEmbed(w)
    \/ \E w \in Workers : WorkerAssign(w)
    \/ \E w \in Workers : WorkerSave(w)
    \/ \E w \in Workers : WorkerReady(w)
    \/ \E w \in Workers : WorkerFinish(w)

\* Every goroutine that can step does step.
GlobSpec ==
    /\ GlobInit
    /\ [][GlobNext]_vars
    /\ WF_vars(GlobStep)
    /\ \A w \in Workers : WF_vars(WorkerStep(w))
    /\ \A c \in Callers : WF_vars(LoadProgress(c))

\* C27: LoadGlob calls Load once for each surviving file and never twice;
\* it returns; what it returns has loaded + failed = the number of
\* surviving files, cached <= loaded, a result for each loaded file and an
\* error message for each failed one.
C27_GlobLoadsEachOnce ==
    /\ [](\A p \in Paths : Len(hist.returns[p]) <= 1)
    /\ []((ret.caller = "loadGlob" /\ ret.err = "") =>
            LET r == ret.result
                survivors == {ret.files[k] : k \in 1..Len(ret.files)}
            IN  /\ r.Loaded + r.Failed = Len(ret.files)
                /\ r.Cached <= r.Loaded
                /\ Len(r.Results) = r.Loaded
                /\ Len(r.Errors) = r.Failed
                /\ \A p \in Paths \ survivors : hist.returns[p] = <<>>
                /\ \A p \in survivors :
                      /\ Len(hist.returns[p]) = 1
                      /\ IF hist.returns[p][1].kind = "ok"
                         THEN \E k \in 1..Len(r.Results) : r.Results[k] = hist.returns[p][1]
                         ELSE \E k \in 1..Len(r.Errors) :
                                 r.Errors[k] = <<p, hist.returns[p][1].msg>>)
    /\ (glob.pc # "idle") ~> (ret.caller = "loadGlob" /\ ret.err = "")

\* The pool has loaded two files, of which one failed.
C27_Witness ==
    /\ ret.caller = "loadGlob" /\ ret.err = ""
    /\ ret.pooled
    /\ ret.result.Loaded = 1 /\ ret.result.Failed = 1

(***************************************************************************)
(* The worker pool and the option that configures it.                      *)
(***************************************************************************)
\* WithMaxConcurrentEmbeddings: n below 1 becomes 1; the option it returns
\* has an empty body, so the Indexer idx it is applied to stays as it is.
WithMaxConcurrentEmbeddings(n, idx) ==
    LET m == IF n <= 0 THEN 1 ELSE n
    IN  idx

\* The options New is called with: none, or WithMaxConcurrentEmbeddings(n).
PoolOptions == {<<>>, <<1>>, <<3>>}

\* New with an embedder and the options opts: the options are applied, then
\* defaultWorkerCount workers are started (the set Workers).
PoolInit ==
    \E opts \in PoolOptions :
        InitOf("ok", [options |-> opts] @@ NoHistory)

PoolSpec == PoolInit /\ [][LiveNext]_vars

\* The number of workers that the options ask for.
ConfiguredWorkers(opts) ==
    IF opts = <<>> THEN 2
    ELSE IF opts[1] <= 0 THEN 1 ELSE opts[1]

\* C11: the number of embedding workers is the configured maximum of
\* concurrent embeddings (2 when not configured), so the number of active
\* workers never exceeds it.
C11_ActiveWithinConfigured ==
    stats.ActiveWorkers <= ConfiguredWorkers(hist.options)

(***************************************************************************)
(* Shutdown and startup: Close, the end of the process, and New on the     *)
(* cache directory that the process left behind.                           *)
(***************************************************************************)
\* The index files of the cache directory in the order of os.ReadDir (sorted
\* by name).
DirOrder == <<"d1", "d2", "d3">>

\* A plausible slip: the first file that fails to load ends the scan.
RECURSIVE HydrateUntilError(_)
HydrateUntilError(entries) ==
    IF entries = <<>> THEN <<>>
    ELSE IF disk[Head(entries)] = NoIndex THEN HydrateUntilError(Tail(entries))
    ELSE IF LoadFromDiskOK(Head(entries))
         THEN <<Head(entries)>> \o HydrateUntilError(Tail(entries))
         ELSE <<>>

\* FileCache.Hydrate over the directory entries: the DocIDs whose file
\* LoadFromDisk accepts, in order; a file that fails to load is skipped.
RECURSIVE Hydrate(_)
Hydrate(entries) ==
    IF entries = <<>> THEN <<>>
    ELSE IF LoadFromDiskOK(Head(entries))
         THEN <<Head(entries)>> \o Hydrate(Tail(entries))
         ELSE Hydrate(Tail(entries))

\* The memory cache after Hydrate loaded the DocIDs in loaded: each Index is
\* a fresh object, keyed by the DocID of its file name.
HydratedHeap(loaded) == [k \in 1..Len(loaded) |-> LoadFromDisk(loaded[k]).index]
HydratedMem(loaded) ==
    [d \in DocIDs |-> IF \E k \in 1..Len(loaded) : loaded[k] = d
                      THEN CHOOSE k \in 1..Len(loaded) : loaded[k] = d
                      ELSE 0]

\* The loop of loadQueue over the DocIDs of queue.json: an Index that
\* cache.Get finds is pushed without blocking; with the queue full, or with
\* no Index in memory, the DocID is dropped.
RECURSIVE loadQueueLoop(_, _, _)
loadQueueLoop(ids, m, q) ==
    IF ids = <<>> THEN q
    ELSE IF m[Head(ids)] # 0 /\ Len(q) < QueueCap
         THEN loadQueueLoop(Tail(ids), m, Append(q, m[Head(ids)]))
         ELSE loadQueueLoop(Tail(ids), m, q)

\* Indexer.loadQueue on the memory cache m: the queue it leaves.
loadQueue(m) ==
    IF queueFile.exists THEN loadQueueLoop(queueFile.doc_ids, m, <<>>) ELSE <<>>

\* The DocIDs of the Indexes at the pointers of q.
RECURSIVE DocIDsOf(_)
DocIDsOf(q) ==
    IF q = <<>> THEN <<>> ELSE <<heap[Head(q)].DocID>> \o DocIDsOf(Tail(q))

Range(seq) == {seq[k] : k \in 1..Len(seq)}

\* The return of Close, and what New found and did, held in ret for the
\* state that follows.
ReturnClose(err, ids) == [caller |-> "close", err |-> err, doc_ids |-> ids]
ReturnNew(file, loaded, pushed) ==
    [caller |-> "new", owed |-> hist.owed, file |-> file, loaded |-> loaded,
     pushed |-> pushed]

\* Indexer.Close, that is saveQueue: nothing is done for an empty queue;
\* else the queue is drained and os.Create and Encode replace queue.json by
\* the DocIDs drained.  os.Create may fail, after the queue was drained.
Close ==
    /\ hist.nCloses < MaxCloses
    /\ IF Len(queue) = 0
       THEN /\ ret' = ReturnClose("", <<>>)
            /\ hist' = [hist EXCEPT !.nCloses = @ + 1]
            /\ UNCHANGED <<queue, queueFile>>
       ELSE /\ queue' = <<>>
            /\ \/ /\ queueFile' = QueueFileOf(DocIDsOf(queue))
                  /\ ret' = ReturnClose("", DocIDsOf(queue))
                  /\ hist' = [hist EXCEPT !.nCloses = @ + 1,
                                          !.owed = @ \cup Range(DocIDsOf(queue))]
               \/ /\ ret' = ReturnClose("create queue file", DocIDsOf(queue))
                  /\ hist' = [hist EXCEPT !.nCloses = @ + 1]
                  /\ UNCHANGED queueFile
    /\ UNCHANGED <<files, heap, mem, disk, ready, stats, clock, embedder, glob, loads,
                   workers>>

\* What is remembered of a process that has just started on a directory
\* where the index file of a.md was left as the record `left`.
HistoryOfRun(left, restarts, nloads) ==
    [NoHistory EXCEPT !.nLoads = nloads]
        @@ [nRestarts |-> restarts, nCloses |-> 0, owed |-> {}, leftover |-> left]

\* The process ends (at any point) and is started again: New starts the
\* workers, Hydrate fills the memory cache from the index files, loadQueue
\* re-enqueues from queue.json and removes it.  The tracker and the
\* counters start afresh.
Restart ==
    /\ hist.nRestarts < MaxRestarts
    /\ LET loaded == Hydrate(DirOrder)
           q == loadQueue(HydratedMem(loaded))
       IN  /\ heap' = HydratedHeap(loaded)
           /\ mem' = HydratedMem(loaded)
           /\ queue' = q
           /\ stats' = [QueueLength |-> Len(q), EmbeddedCount |-> 0, ActiveWorkers |-> 0]
           /\ ret' = ReturnNew(queueFile, loaded, q)
    /\ queueFile' = NoQueueFile
    /\ ready' = [d \in DocIDs |-> FALSE]
    /\ loads' = [c \in Callers |-> IdleLoad]
    /\ workers' = [w \in Workers |-> IdleWorker]
    /\ hist' = HistoryOfRun(hist.leftover, hist.nRestarts + 1, hist.nLoads)
    /\ UNCHANGED <<files, disk, clock, embedder, glob>>

\* A record that a build with an earlier cache format left for a.md.
OldRecord ==
    [NewIndex("a.md", 0, HashFile(0), 0) EXCEPT !.Version = CacheVersion - 1]

\* What an earlier process may have left as the index file of a.md.
Leftovers == {NoIndex, Corrupted, OldRecord}

\* New on a cache directory that holds a leftover, with an embedder.
RestartInit ==
    \E left \in Leftovers :
        /\ files = [p \in Paths |-> IF IsMarkdown(p) THEN 0 ELSE 1]
        /\ disk = [d \in DocIDs |-> IF d = DocIDForPath("a.md") THEN left ELSE NoIndex]
        /\ queueFile = NoQueueFile
        /\ glob = NoGlob
        /\ heap = HydratedHeap(Hydrate(DirOrder))
        /\ mem = HydratedMem(Hydrate(DirOrder))
        /\ queue = loadQueue(mem)
        /\ ready = [d \in DocIDs |-> FALSE]
        /\ stats = [QueueLength |-> Len(queue), EmbeddedCount |-> 0, ActiveWorkers |-> 0]
        /\ clock = 1
        /\ embedder = "ok"
        /\ loads = [c \in Callers |-> IdleLoad]
        /\ workers = [w \in Workers |-> IdleWorker]
        /\ ret = NoReturn
        /\ hist = HistoryOfRun(left, 0, 0)

RestartNext ==
    \/ \E c \in Callers, p \in Paths : LoadHit(c, p)
    \/ \E c \in Callers, p \in Paths : LoadMiss(c, p)
    \/ \E c \in Callers : LoadHash(c)
    \/ \E c \in Callers : LoadParse(c)
    \/ \E c \in Callers : LoadSave(c)
    \/ \E c \in Callers : LoadEnqueue(c)
    \/ \E c \in Callers : LoadCount(c)
    \/ \E w \in Workers : WorkerTake(w)
    \/ \E w \in Workers : WorkerCollect(w)
    \/ \E w \in Workers : WorkerEmbed(w)
    \/ \E w \in Workers : WorkerAssign(w)
    \/ \E w \in Workers : WorkerSave(w)
    \/ \E w \in Workers : WorkerReady(w)
    \/ \E w \in Workers : WorkerFinish(w)
    \/ Close
    \/ Restart

RestartSpec == RestartInit /\ [][RestartNext]_vars

\* C13: the DocID of every Index that waited in the queue at a Close of the
\* run is in queue.json when the process ends, and the next startup
\* enqueues the Index of each of its DocIDs that hydration loaded, up to the
\* capacity of the queue, and removes queue.json.
C13_SpilloverRoundTrip ==
    ret.caller = "new" =>
        /\ ret.owed \subseteq Range(ret.file.doc_ids)
        /\ \A d \in Range(ret.file.doc_ids) :
               (mem[d] # 0 /\ Len(ret.file.doc_ids) <= QueueCap)
                   => \E k \in 1..Len(queue) : queue[k] = mem[d]
        /\ ~queueFile.exists

\* The index file of d holds a record of another cache version.
OtherVersion(d) ==
    disk[d] \notin {NoIndex, Corrupted} /\ disk[d].Version # CacheVersion

\* C17: no Index of another cache version is returned by LoadFromDisk or
\* placed in the memory cache: LoadFromDisk reports a version mismatch,
\* which is not its answer for a missing file; hydration skips the record;
\* and Load treats it as a miss: it goes on to parse, and when it returns
\* after parsing the record on disk has the current version.
C17_VersionGate ==
    /\ [](\A d \in DocIDs :
            /\ mem[d] # 0 => heap[mem[d]].Version = CacheVersion
            /\ LoadFromDisk(d).err = "" => LoadFromDisk(d).index.Version = CacheVersion
            /\ OtherVersion(d) => LoadFromDisk(d).err = "cache version mismatch"
            /\ disk[d] = NoIndex => LoadFromDisk(d).err = "index not found")
    /\ []((ret.caller = "load" /\ ret.result.kind = "ok" /\ ret.parsed)
            => ~OtherVersion(DocIDForPath(ret.path)))
    /\ [][\A c \in Callers :
            (/\ loads[c].pc = "hash"
             /\ OtherVersion(DocIDForPath(loads[c].path))
             /\ loads'[c] # loads[c]
             /\ hist'.nRestarts = hist.nRestarts)
                => loads'[c].pc = "parse"]_vars

\* A Load of a.md has parsed and returned in the process that found the
\* record of another version.
C17_Witness ==
    /\ hist.leftover = OldRecord
    /\ hist.nRestarts = 0
    /\ ret.caller = "load"
    /\ ret.path = "a.md"
    /\ ret.result.kind = "ok"
    /\ ret.parsed

\* The index file of d can be read and holds a record of the current version.
ReadableCurrent(d) ==
    disk[d] \notin {NoIndex, Corrupted} /\ disk[d].Version = CacheVersion

SaveOpen(c) ==
    /\ loads[c].pc = "save"
    /\ "opened" \notin DOMAIN loads[c]
    /\ disk' = [disk EXCEPT ![heap[loads[c].obj].DocID] = Corrupted]
    /\ loads' = [loads EXCEPT ![c] = @ @@ [opened |-> TRUE]]
    /\ ret' = NoReturn
    /\ UNCHANGED <<files, heap, mem, queue, ready, stats, clock, embedder, glob, queueFile,
                   workers, hist>>

\* Step 5b of Load, second half: the data is written, or the write fails.
SaveWrite(c) ==
    /\ "opened" \in DOMAIN loads[c]
    /\ LoadSave(c)

\* New on an empty cache directory, with an embedder.
DiskInit == InitOf("ok", HistoryOfRun(NoIndex, 0, 0))

DiskNext ==
    \/ \E c \in Callers, p \in Paths : LoadHit(c, p)
    \/ \E c \in Callers, p \in Paths : LoadMiss(c, p)
    \/ \E c \in Callers : LoadHash(c)
    \/ \E c \in Callers : LoadParse(c)
    \/ \E c \in Callers : SaveOpen(c)
    \/ \E c \in Callers : SaveWrite(c)
    \/ \E c \in Callers : LoadEnqueue(c)
    \/ \E c \in Callers : LoadCount(c)
    \/ \E w \in Workers : WorkerTake(w)
    \/ \E w \in Workers : WorkerCollect(w)
    \/ \E w \in Workers : WorkerEmbed(w)
    \/ \E w \in Workers : WorkerAssign(w)
    \/ \E w \in Workers : WorkerSave(w)
    \/ \E w \in Workers : WorkerReady(w)
    \/ \E w \in Workers : WorkerFinish(w)
    \/ Restart

DiskSpec == DiskInit /\ [][DiskNext]_vars

\* C19: SaveToDisk replaces the index file atomically: at every moment,
\* also while a SaveToDisk is under way or when the process ends during
\* one, LoadFromDisk finds no file or a complete record, never an empty,
\* partial or mixed one.
C19_SaveIsAtomic ==
    \A d \in DocIDs : LoadFromDisk(d).err \in {"", "index not found"}

(***************************************************************************)
(* The index file as JSON.  A string is the sequence of its characters;    *)
(* a byte that is not part of valid UTF-8 is written "0xE9".               *)
(***************************************************************************)
InvalidBytes == {"0xE9"}
ReplacementRune == "U+FFFD"

\* json.Marshal of a string: invalid bytes become the replacement rune.
MarshalString(str) ==
    [k \in 1..Len(str) |-> IF str[k] \in InvalidBytes THEN ReplacementRune ELSE str[k]]

\* time.Time.MarshalJSON and UnmarshalJSON: RFC 3339 with nanoseconds.
MarshalTime(t) == <<"RFC3339Nano", t>>
UnmarshalTime(doc) == doc[2]

\* The JSON object without members.
NoMembers == [key \in {} |-> 0]

\* A member tagged omitempty: left out when the value is empty (false, "",
\* a nil or empty list).
OmitEmpty(key, value, empty) ==
    IF value = empty THEN NoMembers ELSE [k \in {key} |-> value]

\* The member of a JSON object, or the zero value of the field when the
\* object does not have it.
Member(doc, key, zero) == IF key \in DOMAIN doc THEN doc[key] ELSE zero

\* json.Marshal of a Chunk (the members that the model's chunks have).
MarshalChunk(chunk) ==
    [text |-> MarshalString(chunk.Text), terms |-> chunk.Terms]
        @@ OmitEmpty("heading_path", chunk.HeadingPath, <<>>)
        @@ OmitEmpty("has_code", chunk.HasCode, FALSE)
        @@ OmitEmpty("embedding", chunk.Embedding, NoEmbedding)

UnmarshalChunk(doc) ==
    [Text |-> doc.text, Terms |-> doc.terms,
     HeadingPath |-> Member(doc, "heading_path", <<>>),
     HasCode |-> Member(doc, "has_code", FALSE),
     Embedding |-> Member(doc, "embedding", NoEmbedding)]

\* A plausible slip: source_url is tagged "-" and never written.
MarshalWithoutSourceURL(index) ==
    [doc_id |-> index.DocID, path |-> index.Path, file_hash |-> index.FileHash,
     indexed_at |-> MarshalTime(index.IndexedAt),
     chunks |-> [k \in 1..Len(index.Chunks) |-> MarshalChunk(index.Chunks[k])],
     num_chunks |-> index.NumChunks, version |-> index.Version]

\* json.MarshalIndent of an Index.
Marshal(index) ==
    [doc_id |-> index.DocID, path |-> index.Path, file_hash |-> index.FileHash,
     indexed_at |-> MarshalTime(index.IndexedAt),
     chunks |-> [k \in 1..Len(index.Chunks) |-> MarshalChunk(index.Chunks[k])],
     num_chunks |-> index.NumChunks, version |-> index.Version]
        @@ OmitEmpty("source_url", index.SourceURL, "")

\* json.Unmarshal into an Index.
Unmarshal(doc) ==
    [DocID |-> doc.doc_id, Path |-> doc.path,
     SourceURL |-> Member(doc, "source_url", ""),
     FileHash |-> doc.file_hash, IndexedAt |-> UnmarshalTime(doc.indexed_at),
     Chunks |-> [k \in 1..Len(doc.chunks) |-> UnmarshalChunk(doc.chunks[k])],
     NumChunks |-> doc.num_chunks, Version |-> doc.version]

\* FileCache.SaveToDisk of the Index at ptr: the file holds its JSON, which
\* reads back as Unmarshal gives it.
SaveToDisk(ptr) ==
    /\ ptr \in 1..Len(heap)
    /\ disk' = [disk EXCEPT ![heap[ptr].DocID] = Unmarshal(Marshal(heap[ptr]))]
    /\ hist' = [hist EXCEPT !.saved[heap[ptr].DocID] = heap[ptr]]
    /\ ret' = [caller |-> "saveToDisk", err |-> ""]
    /\ UNCHANGED <<files, heap, mem, queue, ready, stats, clock, embedder, glob, queueFile,
                   loads, workers>>

\* A call of FileCache.LoadFromDisk; saved is the Index last given to
\* SaveToDisk under that DocID.
LoadFromDiskCall(d) ==
    /\ ret' = [caller |-> "loadFromDisk", docID |-> d, result |-> LoadFromDisk(d),
               saved |-> hist.saved[d]]
    /\ UNCHANGED <<files, heap, mem, disk, queue, ready, stats, clock, embedder, glob, queueFile,
                   loads, workers, hist>>

\* The texts, chunks and Indexes saved: a text of a file in UTF-8 and one
\* of a file in Latin-1; chunks with and without headings, code and
\* embedding; an Index of a file and one of a site.
CodecTexts == {<<"c", "a", "f", "e">>, <<"c", "a", "f", "0xE9">>}

CodecChunks ==
    {[Text |-> txt, Terms |-> terms, HeadingPath |-> path, HasCode |-> code,
      Embedding |-> emb] :
        txt \in CodecTexts, terms \in {<<>>, <<"caf">>}, path \in {<<>>, <<"Menu">>},
        code \in BOOLEAN, emb \in {NoEmbedding, <<1>>}}

MaxSaved == 2

CodecIndex(url, chunks, now) ==
    [DocID |-> DocIDForPath("a.md"), Path |-> "a.md", SourceURL |-> url,
     FileHash |-> HashFile(0), IndexedAt |-> now, Chunks |-> chunks,
     NumChunks |-> Len(chunks), Version |-> CacheVersion]

CodecInit ==
    /\ files = [p \in Paths |-> 0]
    /\ \E n \in 0..MaxSaved, url \in {"", "http://site"} :
         \E chunks \in [1..n -> CodecChunks] :
            heap = <<CodecIndex(url, chunks, 1)>>
    /\ mem = [d \in DocIDs |-> IF d = "d1" THEN 1 ELSE 0]
    /\ disk = [d \in DocIDs |-> NoIndex]
    /\ queueFile = NoQueueFile
    /\ glob = NoGlob
    /\ queue = <<>>
    /\ ready = [d \in DocIDs |-> FALSE]
    /\ stats = [QueueLength |-> 0, EmbeddedCount |-> 0, ActiveWorkers |-> 0]
    /\ clock = 2
    /\ embedder = "none"
    /\ loads = [c \in Callers |-> IdleLoad]
    /\ workers = [w \in Workers |-> IdleWorker]
    /\ ret = NoReturn
    /\ hist = NoHistory @@ [saved |-> [d \in DocIDs |-> NoIndex]]

CodecNext ==
    \/ \E ptr \in 1..MaxSaved : SaveToDisk(ptr)
    \/ \E d \in DocIDs : LoadFromDiskCall(d)

CodecSpec == CodecInit /\ [][CodecNext]_vars

\* Every string of the Index is valid UTF-8.
ValidUTF8(index) ==
    \A k \in 1..Len(index.Chunks) :
        \A i \in 1..Len(index.Chunks[k].Text) : index.Chunks[k].Text[i] \notin InvalidBytes

SiteNext ==
    \/ LiveNext
    \/ \E c \in Callers, u \in URLs, force \in BOOLEAN : LoadSite(c, u, force)

SiteSpec == LiveInit /\ [][SiteNext]_vars

\* The Index at ptr waits in the queue or is in the batch of a worker.
WithWorkers(ptr) ==
    \/ \E k \in 1..Len(queue) : queue[k] = ptr
    \/ \E w \in Workers : \E k \in 1..Len(workers[w].batch) : workers[w].batch[k] = ptr

\* C12: with an embedder configured, a LoadSite that fetched and indexed a
\* URL has put the new Index on the embedding queue (so that the site
\* becomes ready).
C12_SiteEnqueued ==
    (ret.caller = "loadSite" /\ ret.result.kind = "ok" /\ ~ret.result.FromCache)
        => (embedder # "none" => WithWorkers(ret.obj))

(***************************************************************************)
(* The indexing_status tool.                                               *)
(***************************************************************************)
\* Indexer.GetStatus: the counters, with DocsCount taken from cache.List.
GetStatus ==
    [DocsCount |-> Cardinality({d \in DocIDs : mem[d] # 0}),
     QueueLength |-> stats.QueueLength,
     EmbeddedCount |-> stats.EmbeddedCount,
     ActiveWorkers |-> stats.ActiveWorkers]

\* Handlers.IndexingStatus: the response made of GetStatus.
IndexingStatus ==
    [docs_count |-> GetStatus.DocsCount,
     queue_length |-> GetStatus.QueueLength,
     embedded_count |-> GetStatus.EmbeddedCount,
     active_workers |-> GetStatus.ActiveWorkers,
     status |-> IF GetStatus.QueueLength > 0 \/ GetStatus.ActiveWorkers > 0
                THEN "indexing" ELSE "idle"]

\* No Load is in progress, the embedding queue is empty and every worker
\* waits for its first item.
Quiescent ==
    /\ \A c \in Callers : loads[c].pc = "idle"
    /\ queue = <<>>
    /\ \A w \in Workers : workers[w].pc = "wait"

\* C29: whenever no Load is in progress, the queue is empty and no worker
\* holds a batch (also after Close drained the queue), indexing_status
\* reports queue_length = 0, active_workers = 0 and the status "idle".
C29_IdleWhenQuiescent ==
    Quiescent => /\ IndexingStatus.queue_length = 0
                 /\ IndexingStatus.active_workers = 0
                 /\ IndexingStatus.status = "idle"

(***************************************************************************)
(* The order in which a batch's vectors are given to its chunks.           *)
(***************************************************************************)
\* The number of chunks of the first n Indexes of a batch: the chunks that
\* come before those of Index n + 1 in batch order.
RECURSIVE ChunksBefore(_, _)
ChunksBefore(batch, n) ==
    IF n = 0 THEN 0
    ELSE ChunksBefore(batch, n - 1) + Len(heap[batch[n]].Chunks)

\* Worker w takes the step of the distribution loop that assigns the chunks
\* of an Index.
Assigns(w) == workers[w].pc = "assign" /\ workers'[w].pc = "save"

\* C30: when a batch succeeds, the k-th chunk in batch order (documents in
\* dequeue order, chunks in document order) is given the k-th vector that
\* EmbedBatch returned, which is the vector of that chunk's own prepared
\* text, also in a batch of several documents.
C30_KthChunkKthVector ==
    [][\A w \in Workers :
         Assigns(w) =>
             LET ptr == workers[w].batch[workers[w].i]
                 before == ChunksBefore(workers[w].batch, workers[w].i - 1)
             IN  \A k \in 1..Len(heap[ptr].Chunks) :
                   /\ heap'[ptr].Chunks[k].Embedding = workers[w].embs[before + k]
                   /\ heap'[ptr].Chunks[k].Embedding
                          = VectorOf(prepareTextForEmbedding(heap[ptr], k))
                   /\ heap'[ptr].Chunks[k].Text = heap[ptr].Chunks[k].Text]_vars

\* The second document of a batch has just been given its vectors, after a
\* first document with chunks of its own.
C30_Witness ==
    \E w \in Workers :
        /\ workers[w].pc = "save"
        /\ workers[w].i = 2
        /\ Len(heap[workers[w].batch[1]].Chunks) >= 1
        /\ Len(heap[workers[w].batch[2]].Chunks) = 2
        /\ heap[workers[w].batch[1]].Path # heap[workers[w].batch[2]].Path
        /\ \A k \in 1..2 :
             heap[workers[w].batch[2]].Chunks[k].Embedding
                 = VectorOf(prepareTextForEmbedding(heap[workers[w].batch[2]], k))

(***************************************************************************)
(* LoadSite on a record that an earlier LoadSite persisted: the process    *)
(* ends and is started again on the cache directory, and Hydrate either    *)
(* reads the directory or fails on it (New goes on without the memory      *)
(* cache: "best effort").                                                  *)
(***************************************************************************)
\* New when os.ReadDir of the cache directory fails in Hydrate (a directory
\* that may be searched but not listed): no Index is in memory, so
\* loadQueue finds no Index to push, and removes queue.json.  The index
\* files can still be read by name.
RestartUnhydrated ==
    /\ hist.nRestarts < MaxRestarts
    /\ heap' = <<>>
    /\ mem' = [d \in DocIDs |-> 0]
    /\ queue' = <<>>
    /\ stats' = [QueueLength |-> 0, EmbeddedCount |-> 0, ActiveWorkers |-> 0]
    /\ ret' = ReturnNew(queueFile, <<>>, <<>>)
    /\ queueFile' = NoQueueFile
    /\ ready' = [d \in DocIDs |-> FALSE]
    /\ loads' = [c \in Callers |-> IdleLoad]
    /\ workers' = [w \in Workers |-> IdleWorker]
    /\ hist' = HistoryOfRun(hist.leftover, hist.nRestarts + 1, hist.nLoads)
    /\ UNCHANGED <<files, disk, clock, embedder, glob>>

ColdSiteNext ==
    \/ \E c \in Callers, u \in URLs, force \in BOOLEAN : LoadSite(c, u, force)
    \/ Restart
    \/ RestartUnhydrated

ColdSiteSpec == RestartInit /\ [][ColdSiteNext]_vars

\* The index file of the URL is a record that LoadSite(u) wrote, and no
\* Index of the URL is in the memory cache.
PersistedNotInMemory(u) ==
    /\ mem[docIDForURL(u)] = 0
    /\ LoadFromDiskOK(docIDForURL(u))
    /\ disk[docIDForURL(u)].SourceURL = u

\* C28: LoadSite(url, force = false) for a URL whose Index an earlier
\* LoadSite(url) persisted and that is not in the memory cache returns
\* FromCache = true with the Index of the disk record, without calling the
\* fetcher (nothing is fetched, built or written).
C28_DiskRecordAnswers ==
    [][\A c \in Callers, u \in URLs :
          (PersistedNotInMemory(u) /\ LoadSite(c, u, FALSE))
              => /\ ret'.result.kind = "ok"
                 /\ ret'.result.FromCache
                 /\ ret'.result.IndexedAt = disk[docIDForURL(u)].IndexedAt
                 /\ disk' = disk]_vars

(***************************************************************************)
(* Search.  A string is modelled by what its length is made of: a chunk's  *)
(* Text by its runes, the bytes of a rune and whether it was cut (ends     *)
(* with "\n…"); an excerpt by the bytes of its heading and source lines    *)
(* (Head) and its Text; a response by its excerpts or by its message.      *)
(***************************************************************************)
BytesPerToken == 4      \* approxTokens: ~4 bytes per token
MinCut == 80            \* trimExcerpt keeps at least 80 runes
EllipsisBytes == 4      \* len("\n…")
SeparatorBytes == 35    \* len("\n--------------------------------\n\n")
TooSmallBytes == 44     \* len("Token limit too small to return any excerpt.")
NoRelevantBytes == 51   \* len("No relevant excerpts found in the indexed document.")

Min(a, b) == IF a < b THEN a ELSE b

\* approxTokens, of a string of that many bytes.
approxTokens(bytes) == (bytes + 3) \div BytesPerToken

\* len(text) and len([]rune(text))
TextBytes(text) == text.Runes * text.Width + (IF text.Cut THEN EllipsisBytes ELSE 0)
TextRunes(text) == text.Runes + (IF text.Cut THEN 2 ELSE 0)

\* formatExcerpt: "### title\nSource: path#Lx-Ly\n\n" + Text + "\n"
formatExcerpt(chunk) == [Head |-> chunk.Head, Text |-> chunk.Text]
ByteLen(excerpt) == excerpt.Head + TextBytes(excerpt.Text) + 1

\* trimExcerpt
trimExcerpt(chunk, maxTokens) ==
    LET tokens == approxTokens(ByteLen(formatExcerpt(chunk)))
        over == tokens - maxTokens
        runes == TextRunes(chunk.Text)
        cut0 == runes - over * 4
        cut == IF cut0 < MinCut THEN Min(MinCut, runes) ELSE cut0
    IN  IF cut < runes
        THEN formatExcerpt([chunk EXCEPT !.Text = [Runes |-> cut, Width |-> @.Width,
                                                   Cut |-> TRUE]])
        ELSE formatExcerpt(chunk)

\* The loop of buildResponse from the k-th scored chunk on; out holds the
\* excerpts written so far (excerptCount = Len(out)).
RECURSIVE buildLoop(_, _, _, _, _)
buildLoop(scored, k, maxTokens, out, tokensUsed) ==
    IF k > Len(scored) THEN out
    ELSE LET whole == formatExcerpt(scored[k])
             excerpt == IF Len(out) = 0 /\ approxTokens(ByteLen(whole)) > maxTokens
                        THEN trimExcerpt(scored[k], maxTokens)
                        ELSE whole
             tokens == approxTokens(ByteLen(excerpt))
         IN  IF tokensUsed + tokens > maxTokens THEN out
             ELSE IF tokensUsed + tokens >= maxTokens THEN Append(out, excerpt)
             ELSE buildLoop(scored, k + 1, maxTokens, Append(out, excerpt),
                            tokensUsed + tokens)

\* buildResponse
buildResponse(scored, maxTokens) ==
    LET out == buildLoop(scored, 1, maxTokens, <<>>, 0)
    IN  IF Len(out) = 0 THEN [kind |-> "tooSmall"]
                        ELSE [kind |-> "excerpts", parts |-> out]

\* The descending orders of the chunks at the positions in hits: a chunk of
\* the highest score first, then the rest.  sort.Slice is not stable, so
\* chunks of equal score come in any order.
RECURSIVE SortedByScore(_, _)
SortedByScore(chunks, hits) ==
    IF hits = {} THEN {<<>>}
    ELSE LET best == {k \in hits : \A o \in hits : chunks[k].Score >= chunks[o].Score}
         IN  UNION {{<<chunks[k]>> \o rest : rest \in SortedByScore(chunks, hits \ {k})} :
                    k \in best}

\* A query is the sequence of the words that tokenRe finds in it once
\* StripHTML has removed tags and entities.
ToLower(word) ==
    CASE word = "The" -> "the"
      [] word = "Keyword" -> "keyword"
      [] OTHER -> word

\* len(t) < MinTokenLength, and IsStopword
TooShort(term) == term \in {"a", "x"}
IsStopword(term) == term \in {"the", "a", "is", "how"}

\* text.NormalizeTerms: lowercase, then drop short tokens and stopwords.
NormalizeTerms(words) ==
    SelectSeq([k \in 1..Len(words) |-> ToLower(words[k])],
              LAMBDA t : ~TooShort(t) /\ ~IsStopword(t))

\* The one term that occurs in the chunks queried.
Keyword == "keyword"

\* A query with that term, as the callers of Query give it.
KeywordQuery == <<Keyword>>

\* scoreChunk: the sum over the query terms of idf * tf * queryFreq, where a
\* term that occurs in no chunk (docFreq 0) is skipped.  chunk.Score is
\* idf * tf of the chunk for Keyword: 0 when the chunk does not have the
\* term, positive when it has.
scoreChunk(chunk, queryTerms) ==
    chunk.Score * Len(SelectSeq(queryTerms, LAMBDA t : t = Keyword))

\* scoreChunks: nothing for a query without terms or an Index without
\* chunks; else the chunks of positive score with their scores, best
\* first.  The set of outcomes.
scoreChunks(index, query) ==
    LET queryTerms == NormalizeTerms(query)
        results == [k \in 1..Len(index.Chunks) |->
                       [index.Chunks[k] EXCEPT !.Score = scoreChunk(index.Chunks[k], queryTerms)]]
    IN  IF Len(queryTerms) = 0 THEN {<<>>}
        ELSE IF index.NumChunks = 0 THEN {<<>>}
        ELSE SortedByScore(results, {k \in 1..Len(results) : results[k].Score > 0})

\* A plausible slip: an empty ranking goes to buildResponse like any other.
SearchUnchecked(scored, maxTokens) ==
    LET limit == IF maxTokens <= 0 THEN DefaultMaxTokens ELSE maxTokens
    IN  buildResponse(scored, limit)

\* BM25Searcher.Search, given what its call of scoreChunks returned.
Search(scored, maxTokens) ==
    LET limit == IF maxTokens <= 0 THEN DefaultMaxTokens ELSE maxTokens
    IN  IF Len(scored) = 0 THEN [kind |-> "noRelevant"]
                           ELSE buildResponse(scored, limit)

RECURSIVE SumBytes(_, _)
SumBytes(parts, k) ==
    IF k > Len(parts) THEN 0 ELSE ByteLen(parts[k]) + SumBytes(parts, k + 1)

\* len(response), for a response of Search.
ResponseBytes(response) ==
    CASE response.kind = "excerpts" ->
             SumBytes(response.parts, 1) + SeparatorBytes * (Len(response.parts) - 1)
      [] response.kind = "tooSmall" -> TooSmallBytes
      [] response.kind = "noRelevant" -> NoRelevantBytes

\* The loop of Indexer.QueryAll from the i-th docID of cache.List() on;
\* scoredOf[d] is what scoreChunks returns for document d.
RECURSIVE QueryAllLoop(_, _, _, _, _, _)
QueryAllLoop(docIDs, i, scoredOf, maxTokens, results, tokensUsed) ==
    IF i > Len(docIDs) THEN results
    ELSE LET remaining == maxTokens - tokensUsed
             excerpt == Search(scoredOf[docIDs[i]], remaining)
         IN  IF remaining <= 0 THEN results
             ELSE IF excerpt.kind # "noRelevant"
             THEN QueryAllLoop(docIDs, i + 1, scoredOf, maxTokens,
                               Append(results, excerpt),
                               tokensUsed + ResponseBytes(excerpt) \div 4)
             ELSE QueryAllLoop(docIDs, i + 1, scoredOf, maxTokens, results, tokensUsed)

\* Indexer.QueryAll over a non-empty cache listed as docIDs.
QueryAllOver(docIDs, scoredOf, maxTokens) ==
    LET results == QueryAllLoop(docIDs, 1, scoredOf, maxTokens, <<>>, 0)
    IN  IF Len(results) = 0 THEN [kind |-> "noneInAny"]
                            ELSE [kind |-> "joined", results |-> results]

QueryOK(response) == [kind |-> "ok", response |-> response]
QueryError(msg) == [kind |-> "error", msg |-> msg]

\* Indexer.Query by path.
Query(p, maxTokens) ==
    LET d == DocIDForPath(p)
        answer(index) ==
            \E scored \in scoreChunks(index, KeywordQuery) :
                ret' = [caller |-> "query", path |-> p, maxTokens |-> maxTokens,
                        scored |-> scored,
                        result |-> QueryOK(Search(scored, maxTokens))]
    IN  /\ IF mem[d] # 0
           THEN answer(heap[mem[d]]) /\ UNCHANGED <<heap, mem>>
           ELSE IF disk[d] = NoIndex
           THEN /\ ret' = [caller |-> "query", path |-> p, maxTokens |-> maxTokens,
                           result |-> QueryError("document not loaded")]
                /\ UNCHANGED <<heap, mem>>
           ELSE IF ~LoadFromDiskOK(d)
           THEN /\ ret' = [caller |-> "query", path |-> p, maxTokens |-> maxTokens,
                           result |-> QueryError("load from cache")]
                /\ UNCHANGED <<heap, mem>>
           ELSE IF disk[d].Path # p
           THEN /\ ret' = [caller |-> "query", path |-> p, maxTokens |-> maxTokens,
                           result |-> QueryError("path differs")]
                /\ UNCHANGED <<heap, mem>>
           ELSE /\ heap' = Append(heap, disk[d])
                /\ mem' = [mem EXCEPT ![d] = Len(heap) + 1]
                /\ answer(disk[d])
        /\ UNCHANGED <<files, disk, queue, ready, stats, clock, embedder, glob, queueFile, loads,
                       workers, hist>>

\* The orders in which cache.List() can return the documents in memory.
Listings ==
    LET inMem == {d \in DocIDs : mem[d] # 0}
        n == Cardinality(inMem)
    IN  {l \in [1..n -> inMem] : \A i, j \in 1..n : i < j => l[i] # l[j]}

\* What scoreChunks can return for each document in memory.
Scorings ==
    LET outcomes(d) == IF mem[d] = 0 THEN {<<>>} ELSE scoreChunks(heap[mem[d]], KeywordQuery)
    IN  {[d \in DocIDs |-> IF d = "d1" THEN pair[1] ELSE pair[2]] :
            pair \in outcomes("d1") \X outcomes("d2")}

\* Indexer.QueryAll
QueryAll(maxTokens) ==
    /\ IF \A d \in DocIDs : mem[d] = 0
       THEN ret' = [caller |-> "queryAll", maxTokens |-> maxTokens,
                    result |-> QueryError("no documents loaded")]
       ELSE \E docIDs \in Listings, scoredOf \in Scorings :
                ret' = [caller |-> "queryAll", maxTokens |-> maxTokens,
                        docIDs |-> docIDs, scored |-> scoredOf,
                        result |-> QueryOK(QueryAllOver(docIDs, scoredOf, maxTokens))]
    /\ UNCHANGED <<files, heap, mem, disk, queue, ready, stats, clock, embedder, glob, queueFile, loads,
                   workers, hist>>

(***************************************************************************)
(* Queries over indexes of given shapes.                                   *)
(***************************************************************************)
MaxChunks == 4

\* A chunk whose heading and source lines take head bytes, whose text has
\* that many runes of width bytes each, and whose BM25 score for the query is
\* score (0: no term of the query occurs in it).
ShapedChunk(head, runes, width, score) ==
    [Text |-> [Runes |-> runes, Width |-> width, Cut |-> FALSE],
     Head |-> head, Score |-> score, Embedding |-> NoEmbedding]

\* The chunks queried: a short chunk that matches the query and one that does
\* not, a long ASCII chunk ("keyword word " x 100 under the heading "First",
\* no path), and a chunk of two-byte runes that scores like the short one.
ShapedChunks == {ShapedChunk(24, 3, 1, 0),
                 ShapedChunk(24, 3, 1, 1),
                 ShapedChunk(26, 1300, 1, 2),
                 ShapedChunk(24, 100, 2, 1)}

ShapedIndex(p, chunks) ==
    [DocID |-> DocIDForPath(p), Path |-> p, FileHash |-> HashFile(0),
     IndexedAt |-> 0, Chunks |-> chunks, NumChunks |-> Len(chunks),
     Version |-> CacheVersion]

\* max_tokens as the caller gives it (0: omitted).
TokenLimits == {-1, 0, 28, 50, DefaultMaxTokens}

SearchInit ==
    /\ files = [p \in Paths |-> 0]
    /\ \E n \in 0..MaxChunks, where \in {"absent", "memory", "disk"} :
         \E chunks \in [1..n -> ShapedChunks] :
            LET first == ShapedIndex("a.md", chunks)
                other == ShapedIndex("b.go", <<ShapedChunk(24, 3, 1, 1)>>)
            IN  /\ heap = IF where = "memory" THEN <<first, other>> ELSE <<first>>
                /\ mem = [d \in DocIDs |-> IF d = "d1" THEN 1
                                           ELSE IF d = "d2" /\ where = "memory" THEN 2
                                           ELSE 0]
                /\ disk = [d \in DocIDs |-> IF d = "d2" /\ where = "disk"
                                            THEN other ELSE NoIndex]
    /\ queueFile = NoQueueFile
    /\ glob = NoGlob
    /\ queue = <<>>
    /\ ready = [d \in DocIDs |-> FALSE]
    /\ stats = [QueueLength |-> 0, EmbeddedCount |-> 0, ActiveWorkers |-> 0]
    /\ clock = 1
    /\ embedder = "none"
    /\ loads = [c \in Callers |-> IdleLoad]
    /\ workers = [w \in Workers |-> IdleWorker]
    /\ ret = NoReturn
    /\ hist = [nLoads |-> 0, nEdits |-> 0,
               done |-> [p \in Paths |-> NoResult],
               raced |-> [p \in Paths |-> FALSE]]

SearchNext ==
    \/ \E p \in Paths, maxTokens \in TokenLimits : Query(p, maxTokens)
    \/ \E maxTokens \in TokenLimits : QueryAll(maxTokens)

SearchSpec == SearchInit /\ [][SearchNext]_vars

(***************************************************************************)
(* Query and QueryAll with all their arguments.  An argument that is a     *)
(* string is "" when the caller leaves it out; a prompt is the sequence    *)
(* of its words, <<>> when it is empty.                                    *)
(***************************************************************************)
NoPrompt == <<>>

\* A plausible slip: every error of LoadFromDisk is reported alike.
QueryOutcomeAnyError(docID, path, prompt) ==
    LET d == IF docID = "" THEN DocIDForPath(path) ELSE docID
        loaded == LoadFromDisk(d)
    IN  IF docID = "" /\ path = "" THEN [err |-> "doc_id or path is required", warm |-> FALSE]
        ELSE IF mem[d] # 0
        THEN [err |-> IF prompt = NoPrompt THEN "prompt is required" ELSE "", warm |-> FALSE]
        ELSE IF loaded.err # "" THEN [err |-> "load from cache", warm |-> FALSE]
        ELSE IF path # "" /\ loaded.index.Path # path
        THEN [err |-> "path differs", warm |-> FALSE]
        ELSE [err |-> IF prompt = NoPrompt THEN "prompt is required" ELSE "", warm |-> TRUE]

\* A plausible slip: the prompt is not checked.
QueryOutcomeAnyPrompt(docID, path, prompt) ==
    LET d == IF docID = "" THEN DocIDForPath(path) ELSE docID
        loaded == LoadFromDisk(d)
    IN  IF docID = "" /\ path = "" THEN [err |-> "doc_id or path is required", warm |-> FALSE]
        ELSE IF mem[d] # 0 THEN [err |-> "", warm |-> FALSE]
        ELSE IF loaded.err = "index not found"
        THEN [err |-> "document not loaded", warm |-> FALSE]
        ELSE IF loaded.err # "" THEN [err |-> "load from cache", warm |-> FALSE]
        ELSE IF path # "" /\ loaded.index.Path # path
        THEN [err |-> "path differs", warm |-> FALSE]
        ELSE [err |-> "", warm |-> TRUE]

\* Indexer.Query up to its call of the scorer: the error it returns ("" when
\* it goes on to search) and whether it has put the Index read from disk
\* into the memory cache.
QueryOutcome(docID, path, prompt) ==
    LET d == IF docID = "" THEN DocIDForPath(path) ELSE docID
        loaded == LoadFromDisk(d)
    IN  IF docID = "" /\ path = "" THEN [err |-> "doc_id or path is required", warm |-> FALSE]
        ELSE IF mem[d] # 0
        THEN [err |-> IF prompt = NoPrompt THEN "prompt is required" ELSE "", warm |-> FALSE]
        ELSE IF loaded.err = "index not found"
        THEN [err |-> "document not loaded", warm |-> FALSE]
        ELSE IF loaded.err # "" THEN [err |-> "load from cache", warm |-> FALSE]
        ELSE IF path # "" /\ loaded.index.Path # path
        THEN [err |-> "path differs", warm |-> FALSE]
        ELSE [err |-> IF prompt = NoPrompt THEN "prompt is required" ELSE "", warm |-> TRUE]

\* Indexer.Query.  The return tells where the Index was at the call (found:
\* the Index in memory or else the record on disk) and whether the scorer
\* was called.
QueryWith(docID, path, prompt, maxTokens) ==
    LET d == IF docID = "" THEN DocIDForPath(path) ELSE docID
        out == QueryOutcome(docID, path, prompt)
        called == [caller |-> "query", docID |-> docID, path |-> path, prompt |-> prompt,
                   maxTokens |-> maxTokens,
                   inMemory |-> (docID # "" \/ path # "") /\ mem[d] # 0,
                   onDisk |-> IF docID = "" /\ path = "" THEN NoIndex ELSE disk[d],
                   found |-> IF docID = "" /\ path = "" THEN NoIndex
                             ELSE IF mem[d] # 0 THEN heap[mem[d]] ELSE disk[d]]
    IN  /\ IF out.warm
           THEN /\ heap' = Append(heap, disk[d])
                /\ mem' = [mem EXCEPT ![d] = Len(heap) + 1]
           ELSE UNCHANGED <<heap, mem>>
        /\ IF out.err # ""
           THEN ret' = called @@ [searched |-> FALSE, result |-> QueryError(out.err)]
           ELSE \E scored \in scoreChunks(IF out.warm THEN disk[d] ELSE heap[mem[d]], prompt) :
                    ret' = called @@ [searched |-> TRUE, scored |-> scored,
                                      result |-> QueryOK(Search(scored, maxTokens))]
        /\ UNCHANGED <<files, disk, queue, ready, stats, clock, embedder, glob, queueFile, loads,
                       workers, hist>>

\* What scoreChunks can return for each document in memory, for a prompt.
ScoringsFor(prompt) ==
    LET outcomes(d) == IF mem[d] = 0 THEN {<<>>} ELSE scoreChunks(heap[mem[d]], prompt)
    IN  {[d \in DocIDs |-> IF d = "d1" THEN pair[1] ELSE pair[2]] :
            pair \in outcomes("d1") \X outcomes("d2")}

\* Indexer.QueryAll
QueryAllWith(prompt, maxTokens) ==
    /\ IF prompt = NoPrompt
       THEN ret' = [caller |-> "queryAll", prompt |-> prompt, maxTokens |-> maxTokens,
                    searched |-> FALSE, result |-> QueryError("prompt is required")]
       ELSE IF \A d \in DocIDs : mem[d] = 0
       THEN ret' = [caller |-> "queryAll", prompt |-> prompt, maxTokens |-> maxTokens,
                    searched |-> FALSE, result |-> QueryError("no documents loaded")]
       ELSE \E docIDs \in Listings, scoredOf \in ScoringsFor(prompt) :
                ret' = [caller |-> "queryAll", prompt |-> prompt, maxTokens |-> maxTokens,
                        searched |-> TRUE, docIDs |-> docIDs, scored |-> scoredOf,
                        result |-> QueryOK(QueryAllOver(docIDs, scoredOf, maxTokens))]
    /\ UNCHANGED <<files, heap, mem, disk, queue, ready, stats, clock, embedder, glob, queueFile, loads,
                   workers, hist>>

\* Indexer.Load of the empty path: it returns before it reads, hashes or
\* parses anything.
LoadEmptyPath(c) ==
    /\ loads[c].pc = "idle"
    /\ ret' = [caller |-> "load", path |-> "", parsed |-> FALSE,
               result |-> LoadError("path is required")]
    /\ UNCHANGED <<files, heap, mem, disk, queue, ready, stats, clock, embedder, glob, queueFile,
                   loads, workers, hist>>

MaxQueried == 2

\* Where the Index of a document is when the queries start: nowhere, in
\* memory and on disk (after Load), on disk only, or on disk in a file
\* that does not parse.
Places == {"absent", "loaded", "disk", "corrupt"}

QueryInit ==
    /\ files = [p \in Paths |-> 0]
    /\ \E n \in 0..MaxQueried, first \in Places, second \in Places :
         \E chunks \in [1..n -> ShapedChunks] :
            LET a == ShapedIndex("a.md", chunks)
                b == ShapedIndex("b.go", <<ShapedChunk(24, 3, 1, 1)>>)
                placed(place, index) == IF place = "absent" THEN NoIndex
                                        ELSE IF place = "corrupt" THEN Corrupted
                                        ELSE index
            IN  /\ heap = <<a, b>>
                /\ mem = [d \in DocIDs |-> IF d = "d1" /\ first = "loaded" THEN 1
                                           ELSE IF d = "d2" /\ second = "loaded" THEN 2
                                           ELSE 0]
                /\ disk = [d \in DocIDs |-> IF d = "d1" THEN placed(first, a)
                                            ELSE IF d = "d2" THEN placed(second, b)
                                            ELSE NoIndex]
    /\ queueFile = NoQueueFile
    /\ glob = NoGlob
    /\ queue = <<>>
    /\ ready = [d \in DocIDs |-> FALSE]
    /\ stats = [QueueLength |-> 0, EmbeddedCount |-> 0, ActiveWorkers |-> 0]
    /\ clock = 1
    /\ embedder = "none"
    /\ loads = [c \in Callers |-> IdleLoad]
    /\ workers = [w \in Workers |-> IdleWorker]
    /\ ret = NoReturn
    /\ hist = NoHistory

QueryLimits == {0, 50}

QueryNext ==
    \/ \E docID \in {""} \cup DocIDs, path \in {""} \cup Paths, prompt \in {NoPrompt, KeywordQuery},
          maxTokens \in QueryLimits : QueryWith(docID, path, prompt, maxTokens)
    \/ \E prompt \in {NoPrompt, KeywordQuery}, maxTokens \in QueryLimits :
          QueryAllWith(prompt, maxTokens)
    \/ \E c \in Callers : LoadEmptyPath(c)

QuerySpec == QueryInit /\ [][QueryNext]_vars

\* C21: Query with a doc_id and a path that is not the path stored in the
\* Index of that document returns an error, be the Index in the memory
\* cache or only on disk.
C21_MismatchedPathIsError ==
    (/\ ret.caller = "query"
     /\ ret.docID # "" /\ ret.path # ""
     /\ ret.found \notin {NoIndex, Corrupted}
     /\ ret.path # ret.found.Path)
        => ret.result.kind = "error"

\* C22: Query for a document that is neither in the memory cache nor on
\* disk returns the error "document not loaded", and the caches are as
\* they were.
C22_NotLoaded ==
    /\ []((ret.caller = "query" /\ (ret.docID # "" \/ ret.path # "")
              /\ ~ret.inMemory /\ ret.onDisk = NoIndex)
            => ret.result = QueryError("document not loaded"))
    /\ [][\A docID \in {""} \cup DocIDs, path \in {""} \cup Paths :
            LET d == IF docID = "" THEN DocIDForPath(path) ELSE docID
            IN  (/\ docID # "" \/ path # ""
                 /\ mem[d] = 0 /\ disk[d] = NoIndex
                 /\ ret'.caller = "query" /\ ret'.docID = docID /\ ret'.path = path)
                    => (mem' = mem /\ disk' = disk /\ heap' = heap)]_vars

C22_Witness ==
    /\ ret.caller = "query" /\ ret.docID = "" /\ ret.path = "a.md"
    /\ ret.prompt = KeywordQuery
    /\ ~ret.inMemory /\ ret.onDisk = NoIndex
    /\ mem["d2"] # 0
    /\ ret.result.kind = "error"

\* C23: Load with an empty path, Query with neither doc_id nor path, and
\* Query or QueryAll with an empty prompt return an error, and have not
\* called the parser or the scorer.
C23_InvalidInputRejected ==
    /\ (ret.caller = "load" /\ ret.path = "")
          => (ret.result.kind = "error" /\ ~ret.parsed)
    /\ (ret.caller = "query" /\ ret.docID = "" /\ ret.path = "")
          => (ret.result.kind = "error" /\ ~ret.searched)
    /\ (ret.caller \in {"query", "queryAll"} /\ ret.prompt = NoPrompt)
          => (ret.result.kind = "error" /\ ~ret.searched)

C23_Witness ==
    /\ ret.caller = "query" /\ ret.docID = "d1" /\ ret.path = "a.md"
    /\ ret.prompt = NoPrompt
    /\ ret.inMemory
    /\ Len(heap[mem["d1"]].Chunks) = MaxQueried
    /\ ret.result = QueryError("prompt is required")

(***************************************************************************)
(* The parsers, line by line.  A content is the sequence of its lines      *)
(* (strings.Split(content, "\n"): at least one line); a line is one of     *)
(* five: blank, a heading, a fence, a fence with a language, text.  In a   *)
(* line, [fence] stands for the three backquotes of a code fence.          *)
(***************************************************************************)
MaxLines == 7

Lines == {"", "# The beta", "[fence]", "[fence]go", "alpha x alpha"}

headingRe(line) == line = "# The beta"
codeBlockStartRe(line) == line \in {"[fence]", "[fence]go"}
codeBlockEndRe(line) == line = "[fence]"

\* strings.TrimSpace(line) == ""
IsBlank(line) == line = ""

\* The words that tokenRe finds in a line.
Words(line) ==
    CASE line = "# The beta" -> <<"The", "beta">>
      [] line = "[fence]go" -> <<"go">>
      [] line = "alpha x alpha" -> <<"alpha", "x", "alpha">>
      [] OTHER -> <<>>

RECURSIVE WordsOf(_)
WordsOf(lines) == IF lines = <<>> THEN <<>> ELSE Words(Head(lines)) \o WordsOf(Tail(lines))

\* strings.TrimSpace(strings.Join(lines, "\n")): the lines without the blank
\* ones at both ends.
RECURSIVE TrimJoin(_)
TrimJoin(lines) ==
    IF lines = <<>> THEN <<>>
    ELSE IF IsBlank(Head(lines)) THEN TrimJoin(Tail(lines))
    ELSE IF IsBlank(lines[Len(lines)]) THEN TrimJoin(SubSeq(lines, 1, Len(lines) - 1))
    ELSE lines

\* The force split after 4 blank lines in a row.
BlankRunLimit == 4

\* The parsers of the tests and their like: MaxLinesPerChunk and
\* MinLinesPerChunk (0: the default, here that of the first).
MarkdownParsers == {[MaxLinesPerChunk |-> 5, MinLinesPerChunk |-> 2],
                    [MaxLinesPerChunk |-> 3, MinLinesPerChunk |-> 2],
                    [MaxLinesPerChunk |-> 0, MinLinesPerChunk |-> 0]}
DefaultMarkdownParser == [MaxLinesPerChunk |-> 5, MinLinesPerChunk |-> 2]

\* The state of Parse at the start: nothing buffered, the first chunk
\* starts at line 1.
ParseStart ==
    [curStart |-> 1, curBuf |-> <<>>, blankRun |-> 0, inCodeBlock |-> FALSE,
     codeBlocks |-> 0, chunks |-> <<>>]

\* A plausible slip: a flushed chunk does not move the start of the next.
flushSameStart(st, endLine) ==
    IF TrimJoin(st.curBuf) = <<>>
    THEN [st EXCEPT !.curBuf = <<>>, !.curStart = endLine + 1, !.codeBlocks = 0]
    ELSE [st EXCEPT !.chunks = Append(@, [StartLine |-> st.curStart, EndLine |-> endLine,
                                           Text |-> TrimJoin(st.curBuf),
                                           Terms |-> NormalizeTerms(WordsOf(st.curBuf)),
                                           HasCode |-> st.codeBlocks > 0,
                                           Embedding |-> NoEmbedding]),
                    !.curBuf = <<>>, !.codeBlocks = 0]

\* flush: the buffer becomes a chunk, unless its text is empty.
flush(st, endLine) ==
    IF TrimJoin(st.curBuf) = <<>>
    THEN [st EXCEPT !.curBuf = <<>>, !.curStart = endLine + 1, !.codeBlocks = 0]
    ELSE [st EXCEPT !.chunks = Append(@, [StartLine |-> st.curStart, EndLine |-> endLine,
                                           Text |-> TrimJoin(st.curBuf),
                                           Terms |-> NormalizeTerms(WordsOf(st.curBuf)),
                                           HasCode |-> st.codeBlocks > 0,
                                           Embedding |-> NoEmbedding]),
                    !.curBuf = <<>>, !.curStart = endLine + 1, !.codeBlocks = 0]

\* The body of the line loop, for line ln.
ParseLine(st, line, ln, maxLines, minLines) ==
    IF st.inCodeBlock
    THEN IF codeBlockEndRe(line)
         THEN [st EXCEPT !.codeBlocks = @ + 1, !.inCodeBlock = FALSE,
                         !.curBuf = Append(@, line)]
         ELSE [st EXCEPT !.curBuf = Append(@, line)]
    ELSE IF codeBlockStartRe(line)
    THEN [st EXCEPT !.inCodeBlock = TRUE, !.curBuf = Append(@, line)]
    ELSE IF headingRe(line)
    THEN LET flushed == IF Len(st.curBuf) >= minLines THEN flush(st, ln - 1) ELSE st
         IN  [flushed EXCEPT !.curBuf = Append(@, line), !.blankRun = 0]
    ELSE LET added == [st EXCEPT !.blankRun = IF IsBlank(line) THEN @ + 1 ELSE 0,
                                 !.curBuf = Append(@, line)]
         IN  IF Len(added.curBuf) >= maxLines \/ added.blankRun >= BlankRunLimit
             THEN [flush(added, ln) EXCEPT !.blankRun = 0]
             ELSE added

RECURSIVE ParseLines(_, _, _, _, _)
ParseLines(st, lines, ln, maxLines, minLines) ==
    IF ln > Len(lines)
    THEN IF Len(st.curBuf) > 0 THEN flush(st, Len(lines)) ELSE st
    ELSE ParseLines(ParseLine(st, lines[ln], ln, maxLines, minLines), lines, ln + 1,
                    maxLines, minLines)

\* A plausible slip: every occurrence of a term counts.
RECURSIVE CountEveryTerm(_, _, _, _)
CountEveryTerm(terms, j, seen, docFreq) ==
    IF j > Len(terms) THEN docFreq
    ELSE CountEveryTerm(terms, j + 1, seen \cup {terms[j]},
                    [t \in DOMAIN docFreq \cup {terms[j]} |->
                        IF t = terms[j]
                        THEN (IF t \in DOMAIN docFreq THEN docFreq[t] ELSE 0) + 1
                        ELSE docFreq[t]])

\* The inner loop of the document frequency pass: docFreq[term]++ for each
\* term of the chunk that was not seen in it before.
RECURSIVE CountTerms(_, _, _, _)
CountTerms(terms, j, seen, docFreq) ==
    IF j > Len(terms) THEN docFreq
    ELSE IF terms[j] \in seen THEN CountTerms(terms, j + 1, seen, docFreq)
    ELSE CountTerms(terms, j + 1, seen \cup {terms[j]},
                    [t \in DOMAIN docFreq \cup {terms[j]} |->
                        IF t = terms[j]
                        THEN (IF t \in DOMAIN docFreq THEN docFreq[t] ELSE 0) + 1
                        ELSE docFreq[t]])

\* The outer loop, from chunk k on.
RECURSIVE DocFreqFrom(_, _, _)
DocFreqFrom(chunks, k, docFreq) ==
    IF k > Len(chunks) THEN docFreq
    ELSE DocFreqFrom(chunks, k + 1, CountTerms(chunks[k].Terms, 1, {}, docFreq))

NoDocFreq == [t \in {} |-> 0]

\* MarkdownParser.Parse
MarkdownParserParse(parser, lines) ==
    LET maxLines == IF parser.MaxLinesPerChunk = 0 THEN DefaultMarkdownParser.MaxLinesPerChunk
                    ELSE parser.MaxLinesPerChunk
        minLines == IF parser.MinLinesPerChunk = 0 THEN DefaultMarkdownParser.MinLinesPerChunk
                    ELSE parser.MinLinesPerChunk
        chunks == ParseLines(ParseStart, lines, 1, maxLines, minLines).chunks
    IN  [chunks |-> chunks, docFreq |-> DocFreqFrom(chunks, 1, NoDocFreq)]

\* The generic parser of the model: windows of 3 lines that overlap by 1,
\* and no tail of fewer than 2 lines (60, 10 and 10 in NewGenericParser and
\* Parse).
GenericChunkSize == 3
GenericOverlap == 1
GenericMinTail == 2

GenericParsers == {[ChunkSize |-> GenericChunkSize, Overlap |-> GenericOverlap],
                   [ChunkSize |-> 0, Overlap |-> 0 - 1],
                   [ChunkSize |-> GenericChunkSize, Overlap |-> GenericChunkSize]}

\* The window loop, from line i + 1 on.
RECURSIVE GenericWindows(_, _, _, _, _)
GenericWindows(lines, i, chunkSize, step, chunks) ==
    LET end == Min(i + chunkSize, Len(lines))
        window == SubSeq(lines, i + 1, end)
        chunk == [StartLine |-> i + 1, EndLine |-> end, Text |-> window,
                  Terms |-> NormalizeTerms(WordsOf(window)), HasCode |-> TRUE,
                  Embedding |-> NoEmbedding]
    IN  IF i >= Len(lines) THEN chunks
        ELSE IF end - i < GenericMinTail /\ Len(chunks) > 0 THEN chunks
        ELSE IF end = Len(lines) THEN Append(chunks, chunk)
        ELSE GenericWindows(lines, i + step, chunkSize, step, Append(chunks, chunk))

\* GenericParser.Parse
GenericParserParse(parser, lines) ==
    LET chunkSize == IF parser.ChunkSize <= 0 THEN GenericChunkSize ELSE parser.ChunkSize
        atLeast0 == IF parser.Overlap < 0 THEN 0 ELSE parser.Overlap
        overlap == IF atLeast0 >= chunkSize THEN chunkSize \div 2 ELSE atLeast0
        chunks == GenericWindows(lines, 0, chunkSize, chunkSize - overlap, <<>>)
    IN  [chunks |-> chunks, docFreq |-> DocFreqFrom(chunks, 1, NoDocFreq)]

\* A call of MarkdownParser.Parse on the content of a.md.
ParseMarkdown(parser) ==
    /\ ret' = [caller |-> "parse", parser |-> "markdown", config |-> parser,
               lines |-> files["a.md"],
               parsed |-> MarkdownParserParse(parser, files["a.md"])]
    /\ UNCHANGED <<files, heap, mem, disk, queue, ready, stats, clock, embedder, glob, queueFile,
                   loads, workers, hist>>

\* A call of GenericParser.Parse on the content of b.go.
ParseGeneric(parser) ==
    /\ ret' = [caller |-> "parse", parser |-> "generic", config |-> parser,
               lines |-> files["b.go"],
               parsed |-> GenericParserParse(parser, files["b.go"])]
    /\ UNCHANGED <<files, heap, mem, disk, queue, ready, stats, clock, embedder, glob, queueFile,
                   loads, workers, hist>>

\* The contents of up to n lines.
ContentsOfLines(n) == UNION {[1..k -> Lines] : k \in 1..n}

ParseInit ==
    /\ \E lines \in ContentsOfLines(MaxLines) : files = [p \in Paths |-> lines]
    /\ heap = <<>>
    /\ mem = [d \in DocIDs |-> 0]
    /\ disk = [d \in DocIDs |-> NoIndex]
    /\ queueFile = NoQueueFile
    /\ glob = NoGlob
    /\ queue = <<>>
    /\ ready = [d \in DocIDs |-> FALSE]
    /\ stats = [QueueLength |-> 0, EmbeddedCount |-> 0, ActiveWorkers |-> 0]
    /\ clock = 1
    /\ embedder = "none"
    /\ loads = [c \in Callers |-> IdleLoad]
    /\ workers = [w \in Workers |-> IdleWorker]
    /\ ret = NoReturn
    /\ hist = NoHistory

ParseNext ==
    \/ \E parser \in MarkdownParsers : ParseMarkdown(parser)
    \/ \E parser \in GenericParsers : ParseGeneric(parser)

ParseSpec == ParseInit /\ [][ParseNext]_vars

ParsedMarkdown == ret.caller = "parse" /\ ret.parser = "markdown"

\* The lines of the content that no chunk covers.
Uncovered ==
    {ln \in 1..Len(ret.lines) :
        \A k \in 1..Len(ret.parsed.chunks) :
            ln < ret.parsed.chunks[k].StartLine \/ ln > ret.parsed.chunks[k].EndLine}

\* C24 as stated: the chunks of the markdown parser, in order, start at
\* line 1, each starts on the line after the one before it ends, and they
\* leave out only blank lines at the end of the file.
C24_ChunksCoverFile ==
    ParsedMarkdown =>
        LET chunks == ret.parsed.chunks
            last == IF chunks = <<>> THEN 0 ELSE chunks[Len(chunks)].EndLine
        IN  /\ chunks # <<>> => chunks[1].StartLine = 1
            /\ \A k \in 1..Len(chunks) - 1 : chunks[k + 1].StartLine = chunks[k].EndLine + 1
            /\ \A ln \in last + 1..Len(ret.lines) : IsBlank(ret.lines[ln])

\* C24, amended: the chunks of the markdown parser, in order, do not
\* overlap, each has StartLine <= EndLine within the file, and every line
\* that no chunk covers is blank (wherever it is in the file).
C24_ChunksCoverText ==
    ParsedMarkdown =>
        LET chunks == ret.parsed.chunks
        IN  /\ \A k \in 1..Len(chunks) :
                  /\ 1 <= chunks[k].StartLine
                  /\ chunks[k].StartLine <= chunks[k].EndLine
                  /\ chunks[k].EndLine <= Len(ret.lines)
            /\ \A k \in 1..Len(chunks) - 1 : chunks[k].EndLine < chunks[k + 1].StartLine
            /\ \A ln \in Uncovered : IsBlank(ret.lines[ln])

\* Blank lines between two chunks are covered by neither.
C24_Witness ==
    /\ ParsedMarkdown
    /\ Len(ret.parsed.chunks) = 2
    /\ ret.parsed.chunks[1].StartLine = 1
    /\ ret.parsed.chunks[2].StartLine > ret.parsed.chunks[1].EndLine + 1
    /\ ret.parsed.chunks[2].EndLine = Len(ret.lines)

\* C25: no chunk of the markdown parser spans more lines than
\* MaxLinesPerChunk.
C25_WithinMaxLines ==
    ParsedMarkdown =>
        \A k \in 1..Len(ret.parsed.chunks) :
            ret.parsed.chunks[k].EndLine - ret.parsed.chunks[k].StartLine + 1
                <= (IF ret.config.MaxLinesPerChunk = 0
                    THEN DefaultMarkdownParser.MaxLinesPerChunk
                    ELSE ret.config.MaxLinesPerChunk)

\* The chunks that have a term in their term list.
ChunksWith(t) ==
    {k \in 1..Len(ret.parsed.chunks) :
        \E j \in 1..Len(ret.parsed.chunks[k].Terms) : ret.parsed.chunks[k].Terms[j] = t}

AllTerms == {"the", "beta", "go", "alpha", "x", "The"}

\* C26: for the chunks of either parser, DocFreq has an entry for exactly
\* the terms that occur in a chunk, and the entry is the number of chunks
\* in whose term list the term occurs.
C26_DocFreqCountsChunks ==
    ret.caller = "parse" =>
        /\ DOMAIN ret.parsed.docFreq \subseteq AllTerms
        /\ \A t \in AllTerms :
              /\ t \in DOMAIN ret.parsed.docFreq <=> ChunksWith(t) # {}
              /\ t \in DOMAIN ret.parsed.docFreq
                    => ret.parsed.docFreq[t] = Cardinality(ChunksWith(t))

\* A term occurs twice in a chunk and in two chunks of three.
C26_Witness ==
    /\ ret.caller = "parse"
    /\ Len(ret.parsed.chunks) = 3
    /\ "alpha" \in DOMAIN ret.parsed.docFreq
    /\ ret.parsed.docFreq["alpha"] = 2
    /\ \E k \in 1..3 : Len(SelectSeq(ret.parsed.chunks[k].Terms, LAMBDA t : t = "alpha")) >= 2

(***************************************************************************)
(* The hybrid searcher, with its default fusion method (RRF).  A chunk is  *)
(* named by its ChunkID; an embedding is a vector of one component.        *)
(***************************************************************************)
DefaultRRFK == 60

\* cosineSimilarity, for vectors of at most one component: 0 for vectors of
\* different lengths, for empty ones and for a zero vector, else the sign
\* of the product.
cosineSimilarity(a, b) ==
    IF Len(a) # Len(b) \/ Len(a) = 0 THEN 0
    ELSE IF a[1] = 0 \/ b[1] = 0 THEN 0
    ELSE IF a[1] * b[1] > 0 THEN 1 ELSE -1

\* The position (from 1) of the chunk id in a ranking; 0 if it is not there.
RankIn(ranking, id) ==
    IF \E i \in 1..Len(ranking) : ranking[i].ChunkID = id
    THEN CHOOSE i \in 1..Len(ranking) : ranking[i].ChunkID = id
    ELSE 0

\* 1 / (k + rank) as a whole number: all such fractions are scaled by the
\* product of their denominators.
RECURSIVE RRFScale(_)
RRFScale(n) == IF n = 0 THEN 1 ELSE (DefaultRRFK + n) * RRFScale(n - 1)
RRFTerm(rank) == IF rank = 0 THEN 0 ELSE RRFScale(MaxChunks) \div (DefaultRRFK + rank)

\* scoreRRF: the chunks that have a BM25 rank or an embedding rank, by the
\* sum of 1 / (k + rank) over their ranks, best first.  Both sorts are
\* sort.Slice; the set of outcomes.
scoreRRF(index, bm25Scores, queryEmbed) ==
    LET sims == [k \in 1..Len(index.Chunks) |->
                    [index.Chunks[k] EXCEPT
                        !.Score = cosineSimilarity(queryEmbed, index.Chunks[k].Embedding)]]
        embedded == {k \in 1..Len(index.Chunks) : index.Chunks[k].Embedding # NoEmbedding}
        fused(embedScores) ==
            [k \in 1..Len(index.Chunks) |->
                [index.Chunks[k] EXCEPT
                    !.Score = RRFTerm(RankIn(bm25Scores, index.Chunks[k].ChunkID))
                              + RRFTerm(RankIn(embedScores, index.Chunks[k].ChunkID))]]
        ranked(embedScores) ==
            {k \in 1..Len(index.Chunks) :
                \/ RankIn(bm25Scores, index.Chunks[k].ChunkID) # 0
                \/ RankIn(embedScores, index.Chunks[k].ChunkID) # 0}
    IN  UNION {SortedByScore(fused(embedScores), ranked(embedScores)) :
                  embedScores \in SortedByScore(sims, embedded)}

\* embedder.Embed of the query: an error, or its vector.
EmbedOutcomes == {[err |-> TRUE, vec |-> <<>>], [err |-> FALSE, vec |-> <<1>>]}

\* A plausible slip: a failed Embed is not noticed and its empty vector used.
HybridSearchUnchecked(index, maxTokens, bm25Scores, queryEmbed, scored) ==
    LET limit == IF maxTokens <= 0 THEN DefaultMaxTokens ELSE maxTokens
    IN  IF ~IsReady(index.DocID) THEN Search(bm25Scores, limit)
        ELSE IF ~SomeEmbedded(index) THEN Search(bm25Scores, limit)
        ELSE IF Len(scored) = 0 THEN [kind |-> "noRelevant"]
        ELSE buildResponse(scored, limit)

\* HybridSearcher.Search, given what scoreChunks returned to the BM25
\* searcher (bm25Scores), what Embed returned (queryEmbed) and what
\* scoreHybrid returned (scored).
HybridSearch(index, maxTokens, bm25Scores, queryEmbed, scored) ==
    LET limit == IF maxTokens <= 0 THEN DefaultMaxTokens ELSE maxTokens
    IN  IF ~IsReady(index.DocID) THEN Search(bm25Scores, limit)
        ELSE IF ~SomeEmbedded(index) THEN Search(bm25Scores, limit)
        ELSE IF queryEmbed.err THEN Search(bm25Scores, limit)
        ELSE IF Len(scored) = 0 THEN [kind |-> "noRelevant"]
        ELSE buildResponse(scored, limit)

\* The Index searched: the one of a.md in the memory cache.
Searched == heap[mem[DocIDForPath("a.md")]]

\* BM25Searcher.Search on the Index.
SearchBM25(query, maxTokens) ==
    /\ \E scored \in scoreChunks(Searched, query) :
          ret' = [caller |-> "bm25", query |-> query, maxTokens |-> maxTokens,
                  scored |-> scored, response |-> Search(scored, maxTokens)]
    /\ UNCHANGED <<files, heap, mem, disk, queue, ready, stats, clock, embedder, glob, queueFile,
                   loads, workers, hist>>

\* HybridSearcher.Search on the Index; bm25 is what BM25Searcher.Search
\* answers to the same call.
SearchHybrid(query, maxTokens) ==
    /\ \E bm25Scores \in scoreChunks(Searched, query), queryEmbed \in EmbedOutcomes :
          \E scored \in scoreRRF(Searched, bm25Scores, queryEmbed.vec) :
             ret' = [caller |-> "hybrid", query |-> query, maxTokens |-> maxTokens,
                     err |-> queryEmbed.err,
                     bm25 |-> Search(bm25Scores, maxTokens),
                     response |-> HybridSearch(Searched, maxTokens, bm25Scores,
                                               queryEmbed, scored)]
    /\ UNCHANGED <<files, heap, mem, disk, queue, ready, stats, clock, embedder, glob, queueFile,
                   loads, workers, hist>>

\* The chunks ranked: one without the keyword, two that score alike, one
\* without the keyword whose embedding points as the query's does, and a
\* long one of the best score whose embedding points the other way.
RankChunks ==
    {ShapedChunk(24, 3, 1, 0),
     ShapedChunk(24, 3, 1, 1),
     ShapedChunk(24, 100, 2, 1),
     [ShapedChunk(24, 3, 1, 0) EXCEPT !.Embedding = <<1>>],
     [ShapedChunk(26, 1300, 1, 2) EXCEPT !.Embedding = <<0 - 1>>]}

MaxRanked == 3

\* The queries: empty, only a stopword and a short token, the keyword in
\* capitals, and a term that no chunk has.
Queries == {<<>>, <<"The", "a">>, <<"Keyword">>, <<"zebra">>}

RankInit ==
    /\ files = [p \in Paths |-> 0]
    /\ \E n \in 0..MaxRanked :
         \E chunks \in [1..n -> RankChunks] :
            /\ heap = <<ShapedIndex("a.md", [k \in 1..n |-> chunks[k] @@ [ChunkID |-> k]])>>
            /\ mem = [d \in DocIDs |-> IF d = "d1" THEN 1 ELSE 0]
    /\ disk = [d \in DocIDs |-> NoIndex]
    /\ queueFile = NoQueueFile
    /\ glob = NoGlob
    /\ queue = <<>>
    /\ ready \in [DocIDs -> BOOLEAN]
    /\ \A d \in DocIDs \ {"d1"} : ~ready[d]
    /\ stats = [QueueLength |-> 0, EmbeddedCount |-> 0, ActiveWorkers |-> 0]
    /\ clock = 1
    /\ embedder = "flaky"
    /\ loads = [c \in Callers |-> IdleLoad]
    /\ workers = [w \in Workers |-> IdleWorker]
    /\ ret = NoReturn
    /\ hist = NoHistory

RankNext ==
    \/ \E query \in Queries, maxTokens \in TokenLimits : SearchBM25(query, maxTokens)
    \/ \E query \in Queries, maxTokens \in TokenLimits : SearchHybrid(query, maxTokens)

RankSpec == RankInit /\ [][RankNext]_vars

\* C14: the hybrid searcher answers as the BM25 searcher does whenever the
\* tracker reports the document not ready, or no chunk has an embedding, or
\* the embedding of the query fails.
C14_HybridFallsBack ==
    (/\ ret.caller = "hybrid"
     /\ \/ ~IsReady(Searched.DocID)
        \/ ~SomeEmbedded(Searched)
        \/ ret.err)
        => ret.response = ret.bm25

\* The embedding of the query failed for a ready document with an embedded
\* chunk, and the searcher answered with an excerpt.
C14_Witness ==
    /\ ret.caller = "hybrid"
    /\ IsReady(Searched.DocID)
    /\ SomeEmbedded(Searched)
    /\ ret.err
    /\ ret.response.kind = "excerpts"

\* C15: the BM25 ranking is in descending order of score, and chunks of
\* equal score keep the order in which the parser produced them (the order
\* of their ChunkIDs in the Index).
C15_StableRanking ==
    ret.caller = "bm25" =>
        \A i, j \in 1..Len(ret.scored) :
            i < j => \/ ret.scored[i].Score > ret.scored[j].Score
                     \/ /\ ret.scored[i].Score = ret.scored[j].Score
                        /\ ret.scored[i].ChunkID < ret.scored[j].ChunkID

\* The chunk at position k of the Index searched has a term of the query.
HasQueryTerm(k, query) ==
    /\ Searched.Chunks[k].Score > 0
    /\ \E t \in 1..Len(NormalizeTerms(query)) : NormalizeTerms(query)[t] = Keyword

\* C16: the BM25 searcher answers "No relevant excerpts found in the
\* indexed document." exactly when the query normalizes to no terms, or the
\* Index has no chunks, or no chunk has a term of the query; otherwise it
\* answers with excerpts or with the token-limit message.
C16_NoRelevantExactly ==
    ret.caller = "bm25" =>
        /\ ret.response.kind = "noRelevant"
              <=> \/ NormalizeTerms(ret.query) = <<>>
                  \/ Len(Searched.Chunks) = 0
                  \/ \A k \in 1..Len(Searched.Chunks) : ~HasQueryTerm(k, ret.query)
        /\ ret.response.kind \in {"noRelevant", "excerpts", "tooSmall"}

\* A query with a term that no chunk of a non-empty Index has.
C16_Witness ==
    /\ ret.caller = "bm25"
    /\ ret.query = <<"zebra">>
    /\ Len(Searched.Chunks) > 0
    /\ ret.response.kind = "noRelevant"

(***************************************************************************)
(* Properties of Load and of the cache.                                    *)
(***************************************************************************)
Returns == ret.caller = "load"
ReturnsOK == Returns /\ ret.result.kind = "ok"

\* C1: a Load that finds its cached Index built from other bytes than the file
\* now holds re-parses the file, returns FromCache = false with a new
\* IndexedAt, and leaves an Index with the file's hash in the memory cache.
C1_ReindexesChangedFile ==
    (ReturnsOK /\ ret.stale) =>
        /\ ret.parsed
        /\ ~ret.result.FromCache
        /\ heap[mem[DocIDForPath(ret.path)]].FileHash = HashFile(files[ret.path])

\* What a Load that follows a complete Load of an unmodified file returns:
\* FromCache = true and the same DocID, NumChunks and IndexedAt, without
\* parsing, persisting or enqueuing.
SameAsPrior ==
    /\ ret.result.kind = "ok"
    /\ ret.result.FromCache
    /\ ret.result.DocID = ret.prior.DocID
    /\ ret.result.NumChunks = ret.prior.NumChunks
    /\ ret.result.IndexedAt = ret.prior.IndexedAt
    /\ ~ret.parsed
    /\ ret.enq = 0

C6_ReadyMeansEmbedded ==
    \A d \in DocIDs :
        IsReady(d) => mem[d] # 0 /\ AllEmbedded(heap[mem[d]])

\* C7: a document the tracker reports ready has an Index of which at least one
\* chunk has an embedding.
C7_ReadyHasEmbedding ==
    \A d \in DocIDs :
        IsReady(d) => \E ptr \in 1..Len(heap) :
                         heap[ptr].DocID = d /\ SomeEmbedded(heap[ptr])

\* A step of worker w.
StepOf(w) == workers'[w] # workers[w]

\* C9: from the step in which EmbedBatch fails (an error, or a result of the
\* wrong length) until the worker waits again, the worker changes no
\* embedding, persists nothing, marks nothing ready, touches neither the
\* memory cache nor the queue, and only goes on to its counters.
C9_FailedBatchUntouched ==
    [][\A w \in Workers :
         (StepOf(w) /\ (workers[w].failed \/ workers'[w].failed)) =>
             /\ heap' = heap
             /\ disk' = disk
             /\ mem' = mem
             /\ ready' = ready
             /\ queue' = queue
             /\ workers'[w].pc \in {"finish", "wait"}]_vars

C9_Witness ==
    \E w \in Workers :
        /\ workers[w].failed
        /\ workers[w].pc = "finish"
        /\ Len(workers[w].batch) = 2

\* C10 as stated: with an embedder, a Load that parsed has sent its Index to
\* the queue exactly once when it returns.
C10_EveryParseEnqueues ==
    (Returns /\ ret.parsed /\ embedder # "none") => ret.enq = 1

\* C10, amended: with an embedder, a Load that parsed and persisted (it
\* returns FromCache = false) has sent its Index exactly once; a Load at the
\* send stays there while the queue is full; and the send appends the Index.
C10_ParsedAndSavedEnqueues ==
    /\ [](((ReturnsOK /\ ret.parsed /\ embedder # "none") => ret.enq = 1)
          /\ ((ReturnsOK /\ ~ret.parsed) => ret.enq = 0))
    /\ [][\A c \in Callers :
            loads[c].pc = "enqueue" =>
                /\ Len(queue) >= QueueCap => loads'[c] = loads[c]
                /\ loads'[c] # loads[c] =>
                      /\ queue' = Append(queue, loads[c].obj)
                      /\ Len(queue') <= QueueCap]_vars

C10_Witness ==
    /\ ReturnsOK
    /\ ret.parsed
    /\ ret.enq = 1
    /\ Len(queue) = QueueCap

(***************************************************************************)
(* Properties of queries.                                                  *)
(***************************************************************************)
Answers(caller) == ret.caller = caller /\ ret.result.kind = "ok"

\* C3: QueryAll with max_tokens zero, negative or omitted returns what the
\* same query returns with max_tokens = 500.
C3_QueryAllDefaultsTo500 ==
    (Answers("queryAll") /\ ret.maxTokens <= 0) =>
        ret.result.response = QueryAllOver(ret.docIDs, ret.scored, DefaultMaxTokens)

\* The budget Search works with.
Budget(maxTokens) == IF maxTokens <= 0 THEN DefaultMaxTokens ELSE maxTokens

\* The budget holds the heading, the source line and MinCut runes of a cut body.
HoldsMinCut(chunk, budget) ==
    approxTokens(chunk.Head + MinCut * chunk.Text.Width + EllipsisBytes + 1) <= budget

\* C4: when the excerpt of the top-ranked chunk alone exceeds the budget, and
\* the budget holds the heading, the source line and 80 characters of body,
\* Search returns exactly one excerpt, whose body is the chunk's text cut
\* short and ending with "\n…".
C4_TrimsTopExcerpt ==
    (/\ Answers("query")
     /\ Len(ret.scored) > 0
     /\ approxTokens(ByteLen(formatExcerpt(ret.scored[1]))) > Budget(ret.maxTokens)
     /\ HoldsMinCut(ret.scored[1], Budget(ret.maxTokens)))
    => /\ ret.result.response.kind = "excerpts"
       /\ Len(ret.result.response.parts) = 1
       /\ ret.result.response.parts[1].Text.Cut
       /\ ret.result.response.parts[1].Text.Runes < ret.scored[1].Text.Runes

\* C5: the approximate token count of a Search response is at most the budget
\* plus twice the token cost of one separator.
C5_ResponseWithinBudget ==
    Answers("query") =>
        approxTokens(ResponseBytes(ret.result.response))
            <= Budget(ret.maxTokens) + 2 * approxTokens(SeparatorBytes)

(***************************************************************************)
(* Progress of the embedding.                                              *)
(***************************************************************************)
Enqueued(ptr) == \E i \in 1..Len(queue) : queue[i] = ptr

\* The Index at ptr has an embedding on every chunk and is on disk so.
Persisted(ptr) ==
    /\ ptr <= Len(heap)
    /\ AllEmbedded(heap[ptr])
    /\ disk[heap[ptr].DocID] = heap[ptr]

\* The document of the Index at ptr is ready.
ReadyAt(ptr) == ptr <= Len(heap) /\ IsReady(heap[ptr].DocID)

MaxStatusOps == 4    \* calls of SetReady and Clear in one run

\* A plausible slip: Clear empties the map.
ClearEvery(r, d) == [x \in DOMAIN r |-> FALSE]

\* embedding.Status.Clear: delete(s.ready, docID); a missing key reads false.
Clear(r, d) == [r EXCEPT ![d] = FALSE]

\* What is remembered of the calls on the tracker: the last write to each
\* DocID ("none": never written).
StatusHistory ==
    NoHistory @@ [nOps |-> 0, lastWrite |-> [d \in DocIDs |-> "none"]]

StatusSetReady(d) ==
    /\ hist.nOps < MaxStatusOps
    /\ ready' = SetReady(ready, d)
    /\ hist' = [hist EXCEPT !.nOps = @ + 1, !.lastWrite[d] = "set"]
    /\ ret' = NoReturn
    /\ UNCHANGED <<files, heap, mem, disk, queue, stats, clock, embedder, glob, queueFile,
                   loads, workers>>

StatusClear(d) ==
    /\ hist.nOps < MaxStatusOps
    /\ ready' = Clear(ready, d)
    /\ hist' = [hist EXCEPT !.nOps = @ + 1, !.lastWrite[d] = "clear"]
    /\ ret' = NoReturn
    /\ UNCHANGED <<files, heap, mem, disk, queue, stats, clock, embedder, glob, queueFile,
                   loads, workers>>

\* IsReady(d): the value read is held in ret for the state that follows.
StatusIsReady(d) ==
    /\ ret' = [caller |-> "isReady", docID |-> d, result |-> IsReady(d)]
    /\ UNCHANGED <<files, heap, mem, disk, queue, ready, stats, clock, embedder, glob,
                   queueFile, loads, workers, hist>>

\* NewStatus: an empty map.
StatusInit == InitOf("none", StatusHistory)

StatusNext ==
    \/ \E d \in DocIDs : StatusSetReady(d)
    \/ \E d \in DocIDs : StatusClear(d)
    \/ \E d \in DocIDs : StatusIsReady(d)

StatusSpec == StatusInit /\ [][StatusNext]_vars

\* C31: a DocID never written is not ready; after SetReady(D), IsReady(D)
\* is true in every later state until a Clear(D), and only a Clear(D) ends
\* it, whatever the order of the calls on other DocIDs.
C31_ReadyUntilClear ==
    /\ [](\A d \in DocIDs :
            /\ hist.lastWrite[d] = "none" => ~IsReady(d)
            /\ hist.lastWrite[d] = "set" => IsReady(d))
    /\ [](ret.caller = "isReady" =>
            ret.result = (hist.lastWrite[ret.docID] = "set"))
    /\ [][\A d \in DocIDs :
            (IsReady(d) /\ ~IsReady(d)') => hist'.lastWrite[d] = "clear"]_vars

\* IsReady has just answered true for a document that was set ready, after
\* another document was set ready and cleared.
C31_Witness ==
    /\ ret.caller = "isReady"
    /\ ret.result
    /\ \E d \in DocIDs : d # ret.docID /\ hist.lastWrite[d] = "clear"

(***************************************************************************)
(* What a successful LoadSite returns.                                     *)
(***************************************************************************)
\* C32: every successful LoadSite(url, force) returns a result whose URL is
\* the url requested, on a fresh fetch and on a cache hit.
C32_ResultNamesURL ==
    (ret.caller = "loadSite" /\ ret.result.kind = "ok") => ret.result.URL = ret.url

(***************************************************************************)
(* The hash and the chunks of an Index that Load built.                    *)
(***************************************************************************)
\* The chunks of index are those that its parser makes of content.
DescribedBy(index, content) ==
    /\ Len(index.Chunks) = Len(ParseFor(index.Path, content))
    /\ \A k \in 1..Len(index.Chunks) :
         index.Chunks[k].Text = ParseFor(index.Path, content)[k].Text

\* C33: the FileHash of an Index that Load stored is the hash of exactly the
\* bytes that were parsed into its chunks, also when the file is modified
\* while Load is running.
C33_HashOfParsedBytes ==
    \A ptr \in 1..Len(heap) :
        heap[ptr].Path \in Paths =>
            \A content \in Contents :
                heap[ptr].FileHash = HashFile(content) => DescribedBy(heap[ptr], content)

(***************************************************************************)
(* The counters of GetStatus.                                              *)
(***************************************************************************)
\* C34: GetStatus never reports a negative queue_length, under any
\* interleaving of Load calls and embedding workers.
C34_QueueLengthNotNegative == GetStatus.QueueLength >= 0

\* The batch that worker w has finished got its vectors: EmbedBatch was
\* called on a text list that is not empty and returned one vector a text.
Embedded(w) == ~workers[w].failed /\ workers[w].embs # <<>>

\* C35: embedded_count grows only by the documents of a batch whose
\* EmbedBatch call succeeded; a failed or empty batch does not increase it.
C35_CountsEmbeddedOnly ==
    [][\A w \in Workers :
         (workers[w].pc = "finish" /\ workers'[w].pc = "wait") =>
             GetStatus.EmbeddedCount' =
                 GetStatus.EmbeddedCount
                     + (IF Embedded(w) THEN Len(workers[w].batch) ELSE 0)]_vars

(***************************************************************************)
(* The order of the excerpts in a response of QueryAll.                    *)
(***************************************************************************)
\* The chunks behind the excerpts of the response that the loop of QueryAll
\* builds, in the order of the response: for each document listed, the
\* chunks that its Search wrote as excerpts.
RECURSIVE ChunksJoined(_, _, _, _, _, _)
ChunksJoined(docIDs, i, scoredOf, maxTokens, chunks, tokensUsed) ==
    IF i > Len(docIDs) THEN chunks
    ELSE LET remaining == maxTokens - tokensUsed
             excerpt == Search(scoredOf[docIDs[i]], remaining)
         IN  IF remaining <= 0 THEN chunks
             ELSE IF excerpt.kind = "excerpts"
             THEN ChunksJoined(docIDs, i + 1, scoredOf, maxTokens,
                               chunks \o SubSeq(scoredOf[docIDs[i]], 1, Len(excerpt.parts)),
                               tokensUsed + ResponseBytes(excerpt) \div 4)
             ELSE IF excerpt.kind = "tooSmall"
             THEN ChunksJoined(docIDs, i + 1, scoredOf, maxTokens, chunks,
                               tokensUsed + ResponseBytes(excerpt) \div 4)
             ELSE ChunksJoined(docIDs, i + 1, scoredOf, maxTokens, chunks, tokensUsed)

\* QueryAll has just returned a response joined from per-document results.
QueryAllJoined ==
    /\ ret.caller = "queryAll"
    /\ ret.result.kind = "ok"
    /\ ret.result.response.kind = "joined"

\* C36: in the response of QueryAll an excerpt of a higher-scoring chunk
\* comes before an excerpt of a lower-scoring chunk, whichever document
\* each is from, and the response is the same for every order in which
\* the cache lists the documents.
C36_MergedByScore ==
    QueryAllJoined =>
        /\ LET cs == ChunksJoined(ret.docIDs, 1, ret.scored, ret.maxTokens, <<>>, 0)
           IN  \A i, j \in 1..Len(cs) : i < j => cs[i].Score >= cs[j].Score
        /\ \A docIDs \in Listings :
             QueryAllOver(docIDs, ret.scored, ret.maxTokens) = ret.result.response

(***************************************************************************)
(* The memory cache across a call that returns an error.                   *)
(***************************************************************************)
\* C37: a Load or Query call that returns an error leaves the memory cache
\* as it was before the call: the returning step changes no entry, and a
\* Load that fails has not put the Index it parsed in the cache.
C37_ErrorLeavesCache ==
    [][(ret'.caller \in {"load", "query"} /\ ret'.result.kind = "error") =>
          /\ mem' = mem
          /\ heap' = heap
          /\ ret'.caller = "load" => ~ret'.parsed]_vars

\* C38: the response of QueryAll is joined from excerpts only: neither the
\* per-document message "Token limit too small to return any excerpt." nor
\* "No relevant excerpts found" is among the joined results.
C38_OnlyExcerptsJoined ==
    QueryAllJoined =>
        \A k \in 1..Len(ret.result.response.results) :
            ret.result.response.results[k].kind = "excerpts"

(***************************************************************************)
(* Embeddings across a restart.                                            *)
(***************************************************************************)
\* New has just returned, on a cache directory where the index file of d
\* has an embedding on every chunk, and Hydrate put that Index in memory.
HydratedEmbedded(d) ==
    /\ ret.caller = "new"
    /\ LoadFromDiskOK(d)
    /\ disk[d].NumChunks > 0
    /\ AllEmbedded(disk[d])
    /\ mem[d] # 0
    /\ heap[mem[d]] = disk[d]

\* C39: after a restart, a document whose persisted Index has an embedding
\* on every chunk is reported ready by the tracker (so that hybrid scoring
\* answers for it), without being embedded again.
C39_ReadyAfterRestart ==
    \A d \in DocIDs : HydratedEmbedded(d) => IsReady(d)

(***************************************************************************)
(* The window loop of GenericParser.Parse with the sizes of the source,    *)
(* on line numbers only: a file is given by the number of its lines.       *)
(***************************************************************************)
DefaultChunkSize == 60    \* NewGenericParser: ChunkSize
DefaultOverlap == 10      \* NewGenericParser: Overlap
TinyTail == 10            \* a later chunk of fewer lines is not produced
MaxTotalLines == 200      \* len(strings.Split(content, "\n")) of the files parsed

\* NewGenericParser
NewGenericParser == [ChunkSize |-> DefaultChunkSize, Overlap |-> DefaultOverlap]

\* A plausible slip: the tail rule also applies to the only chunk.
RECURSIVE WindowRangesAnyTail(_, _, _, _, _, _)
WindowRangesAnyTail(total, i, chunkSize, step, ranges, turns) ==
    LET end == IF i + chunkSize < total THEN i + chunkSize ELSE total
        chunk == [StartLine |-> i + 1, EndLine |-> end]
    IN  IF i >= total THEN [ranges |-> ranges, terminated |-> TRUE]
        ELSE IF turns = 0 THEN [ranges |-> ranges, terminated |-> FALSE]
        ELSE IF end - i < TinyTail
        THEN [ranges |-> ranges, terminated |-> TRUE]
        ELSE IF end = total
        THEN [ranges |-> Append(ranges, chunk), terminated |-> TRUE]
        ELSE WindowRangesAnyTail(total, i + step, chunkSize, step,
                                 Append(ranges, chunk), turns - 1)

\* for i := 0; i < len(lines); i += step: the line ranges of the chunks
\* appended, from line i + 1 on.  turns is the number of iterations left
\* to a loop that has not ended by itself (terminated = FALSE: it goes on).
RECURSIVE WindowRanges(_, _, _, _, _, _)
WindowRanges(total, i, chunkSize, step, ranges, turns) ==
    LET end == Min(i + chunkSize, total)
        chunk == [StartLine |-> i + 1, EndLine |-> end]
    IN  IF i >= total THEN [ranges |-> ranges, terminated |-> TRUE]
        ELSE IF turns = 0 THEN [ranges |-> ranges, terminated |-> FALSE]
        ELSE IF end - i < TinyTail /\ Len(ranges) > 0
        THEN [ranges |-> ranges, terminated |-> TRUE]
        ELSE IF end = total
        THEN [ranges |-> Append(ranges, chunk), terminated |-> TRUE]
        ELSE WindowRanges(total, i + step, chunkSize, step, Append(ranges, chunk),
                          turns - 1)

\* GenericParser.Parse on a content of total lines: the sizes in effect and
\* the loop, which is given one iteration a line.
GenericParserRanges(parser, total) ==
    LET chunkSize == IF parser.ChunkSize <= 0 THEN DefaultChunkSize ELSE parser.ChunkSize
        atLeast0 == IF parser.Overlap < 0 THEN 0 ELSE parser.Overlap
        overlap == IF atLeast0 >= chunkSize THEN chunkSize \div 2 ELSE atLeast0
    IN  WindowRanges(total, 0, chunkSize, chunkSize - overlap, <<>>, total)

\* Load of a file that is not markdown parses it with NewGenericParser.
ParseWindows(total) ==
    /\ ret' = [caller |-> "windows", total |-> total,
               parsed |-> GenericParserRanges(NewGenericParser, total)]
    /\ UNCHANGED <<files, heap, mem, disk, queue, ready, stats, clock, embedder, glob,
                   queueFile, loads, workers, hist>>

WindowInit == InitWith("none")

WindowNext == \E total \in 1..MaxTotalLines : ParseWindows(total)

WindowSpec == WindowInit /\ [][WindowNext]_vars

\* C40: with the window of 60 lines and the overlap of 10 the generic
\* parser terminates on every input, and every line 1..total_lines is in
\* the range of at least one chunk: the rule against tiny tails drops no
\* line that no earlier chunk covers.
C40_WindowsCoverEveryLine ==
    ret.caller = "windows" =>
        /\ ret.parsed.terminated
        /\ \A ln \in 1..ret.total :
             \E k \in 1..Len(ret.parsed.ranges) :
                 /\ ret.parsed.ranges[k].StartLine <= ln
                 /\ ln <= ret.parsed.ranges[k].EndLine

\* A file of 61 lines: the second window starts at line 51 and is the
\* shortest tail there can be; it is produced.  (A file of fewer than 10
\* lines is the other case: its only chunk is produced.)
C40_Witness ==
    /\ ret.caller = "windows"
    /\ ret.total = DefaultChunkSize + 1
    /\ ret.parsed.terminated
    /\ Len(ret.parsed.ranges) = 2
    /\ ret.parsed.ranges[2] = [StartLine |-> 51, EndLine |-> 61]

====
